---- MODULE Spec2Model ----
(***************************************************************************)
(* One trial worker process of the harness: harness.main() builds the      *)
(* core.Context, EstimatorTrialController.run() drives                     *)
(* tf.estimator.train_and_evaluate, and DeterminedControlHook takes        *)
(* control between training batches (control_loop / after_run).            *)
(* There is one OS process per rank; the process's rank and the group      *)
(* size are fixed when the process starts.                                 *)
(***************************************************************************)
EXTENDS Integers, Sequences, FiniteSets, TLC

(* ---- bounds of the model ---- *)
MaxRanks == 2
MaxWorkloads == 3
MaxBatches == 2
MaxMetric == 1
MaxStartSteps == 1

(* Python's None for the optional integer fields *)
None == -1

VARIABLES
    rank, size,                  \* DistributedContext topology of this process
    pc,                          \* position of the process
    delivered,                   \* workloads yielded so far by the workload stream
    response,                    \* the response built for the workload in progress
    acks,                        \* calls of response functions, in call order
    num_batches, train_response_func, batches_processed_in_step, step_metrics,
    steps_completed, current_global_step, global_step_of_last_checkpoint,
    global_step,                 \* the estimator's global-step tensor
    stop_requested,              \* EstimatorTrialContext stop flag
    train_writes, val_writes,    \* metric_writer calls (the steps_completed written)
    model_saves,                 \* saver.save calls into estimator_dir
    store_entered, uploaded, registered,   \* CheckpointContext.store_path
    metadata,                    \* the metadata handed to each store_path call
    batches_run,                 \* training batches run since the last pull
    exc,                         \* exception in flight
    invalid_hp_at,               \* workloads (0: trial init) during which InvalidHP was raised
    graceful,                    \* number of WorkerFinishedGracefully raised
    trial_closes,                \* on_trial_close calls: the train hooks called, in order
    ctx_log,                     \* calls made by Context.__enter__/__exit__
    exit_code,
    caller,                      \* who runs `with core.init(...)`: harness.main or user code
    info,                        \* det.get_cluster_info()
    backend,                     \* the active det._DistributedBackend
    call,                        \* the arguments of the core.init() call
    core_context,                \* the core.Context that core.init() returned
    sessions,                    \* api.Session objects created
    watcher,                     \* the preempt context's background watcher
    preempt_flag,                \* the flag the watcher sets and should_preempt() reads
    preempt_seen,                \* a should_preempt() call has returned True
    mid_step_signal,             \* the flag was set while a RUN_STEP was in progress
    preempt_exits,               \* early exits reported by the workload stream
    stored,                      \* workload_sequencer.pkl of each uploaded checkpoint
    latest_checkpoint,           \* env.latest_checkpoint: <<>> or <<the file's bytes>>
    wlsq_state,                  \* the position last loaded into the WorkloadSequencer
    restarts,                    \* times the trial was restarted from a checkpoint
    gathered,                    \* the last validation's distributed.gather(metrics)
    run_stop,                    \* the last training batch raised a stop request
    search_pc,                   \* position of the DSAT search runner ("off": none runs)
    running_trials,              \* DSATSearchMethod.running_trials
    operations,                  \* searcher operations issued so far, in order
    events,                      \* searcher events delivered to the search method
    wrappers,                    \* the dsat_experiment_wrapper process of each trial
    followon,                    \* the DSAT follow-on task: its ranks and their side effects
    fit,                         \* a Trainer.fit call: its arguments and what it forwarded
    cli                          \* a CLI kill command: its arguments and its progress

topo_vars == <<rank, size>>
hook_vars == <<num_batches, train_response_func, batches_processed_in_step,
               step_metrics, steps_completed, current_global_step, global_step>>
save_vars == <<global_step_of_last_checkpoint, model_saves>>
write_vars == <<train_writes, val_writes>>
ckpt_vars == <<store_entered, uploaded, registered, metadata>>
ctx_vars == <<ctx_log, exit_code>>
launch_vars == <<caller, info, backend>>
core_vars == <<call, core_context, sessions>>
proc_vars == <<topo_vars, launch_vars, core_vars>>
preempt_vars == <<watcher, preempt_flag, preempt_seen, mid_step_signal, preempt_exits>>
restore_vars == <<stored, latest_checkpoint, wlsq_state, restarts>>
search_vars == <<search_pc, running_trials, operations, events, wrappers>>
tool_vars == <<followon, fit, cli>>

vars == <<tool_vars, search_vars, proc_vars, preempt_vars, restore_vars, gathered, run_stop, pc, delivered, response, acks, hook_vars, save_vars,
          stop_requested, write_vars, ckpt_vars, batches_run, exc, invalid_hp_at,
          graceful, trial_closes, ctx_vars>>

(* ---- values ---- *)
MetricVals == 0..MaxMetric

Kinds == {"RUN_STEP", "COMPUTE_VALIDATION_METRICS", "CHECKPOINT_MODEL", "UNKNOWN"}

(* the workloads the stream can yield; a RUN_STEP carries at least one batch *)
Workloads ==
    [kind : {"RUN_STEP"}, num_batches : 1..MaxBatches]
    \cup [kind : Kinds \ {"RUN_STEP"}, num_batches : {0}]

NoWorkload == [kind |-> "none", num_batches |-> 0]

(* workload.Response values: {}, workload.InvalidHP(), {"metrics":, "stop_requested":},
   {"uuid":} *)
EmptyResponse == [kind |-> "empty", metrics |-> <<>>, stop_requested |-> FALSE, uuid |-> 0]

InvalidHPSwallowed == EmptyResponse

InvalidHPResponse ==
    [kind |-> "invalid_hp", metrics |-> <<>>, stop_requested |-> FALSE, uuid |-> 0]

MetricsResponse(metrics, stop) ==
    [kind |-> "metrics", metrics |-> metrics, stop_requested |-> stop, uuid |-> 0]

UuidResponse(storage_id) ==
    [kind |-> "uuid", metrics |-> <<>>, stop_requested |-> FALSE, uuid |-> storage_id]

is_chief == rank = 0

RECURSIVE SumSeq(_)
SumSeq(s) == IF s = <<>> THEN 0 ELSE Head(s) + SumSeq(Tail(s))

RaisedHP(e, at) == IF e = "InvalidHP" THEN invalid_hp_at \cup {at} ELSE invalid_hp_at

(* ---- core.init(): the environment, the arguments, the Context it builds ---- *)
Backends == {"horovod", "deepspeed", "torch", "none"}

TaskTypes == {"TRIAL", "COMMAND"}

(* det.get_cluster_info(): None off-cluster, else the task's ClusterInfo *)
NoInfo == [task_type |-> "none", container_addrs |-> 0, slot_ids |-> 0, steps_completed |-> 0]

ClusterInfos ==
    [task_type : TaskTypes, container_addrs : 1..MaxRanks, slot_ids : 1..MaxRanks,
     steps_completed : {0}]

PreemptModes == {"WorkersAskChief", "ChiefOnly"}

TensorboardModes == {"AUTO", "MANUAL"}

(* distributed=None *)
NoDistributed == [kind |-> "none", rank |-> None, size |-> None]

(* core.DummyDistributedContext() *)
DummyDistributedContext == [kind |-> "dummy", rank |-> 0, size |-> 1]

(* core.DistributedContext.from_horovod / from_deepspeed / from_torch_distributed *)
DistributedFrom(b) == [kind |-> b, rank |-> rank, size |-> size]

OrDummyKeepsNone(distributed) == distributed

(* distributed or core.DummyDistributedContext() *)
OrDummy(distributed) ==
    IF distributed = NoDistributed THEN DummyDistributedContext ELSE distributed

NoCall ==
    [distributed |-> NoDistributed, storage_manager |-> "none",
     preempt_mode |-> "none", tensorboard_mode |-> "none"]

(* the keyword arguments a caller can pass to core.init() *)
Calls ==
    [distributed : {NoDistributed} \cup {DistributedFrom(b) : b \in Backends \ {"none"}},
     storage_manager : {"none", "given"},
     preempt_mode : PreemptModes,
     tensorboard_mode : TensorboardModes]

NoContext ==
    [checkpoint |-> "none", storage_manager |-> "none", distributed |-> NoDistributed,
     preempt |-> [kind |-> "none", mode |-> "none"], train |-> "none",
     searcher |-> "none", tensorboard_manager |-> FALSE]

(* Context.__init__: train=None and searcher=None become the dummy contexts *)
Context(checkpoint, storage_manager, distributed, preempt, train, searcher, tensorboard_manager) ==
    [checkpoint |-> checkpoint, storage_manager |-> storage_manager,
     distributed |-> OrDummy(distributed), preempt |-> preempt,
     train |-> IF train = "none" THEN "dummy" ELSE train,
     searcher |-> IF searcher = "none" THEN "dummy" ELSE searcher,
     tensorboard_manager |-> tensorboard_manager]

(* storage_manager = storage.SharedFSStorageManager(base_path) when none is given *)
OrSharedFS(storage_manager) ==
    IF storage_manager = "none" THEN "shared_fs" ELSE storage_manager

(* storage_manager = storage.build(config["checkpoint_storage"], ...) when none is given *)
OrConfigured(storage_manager) ==
    IF storage_manager = "none" THEN "configured" ELSE storage_manager

(* _dummy_init(distributed, storage_manager, preempt_mode) *)
dummy_init(distributed, storage_manager, preempt_mode) ==
    Context("dummy", OrSharedFS(storage_manager), OrDummy(distributed),
            [kind |-> "dummy", mode |-> preempt_mode], "dummy", "dummy", FALSE)

(* the default of the preempt_mode parameter of init() and of _dummy_init() *)
DefaultPreemptMode == "WorkersAskChief"

(* init() calls _dummy_init(distributed=..., storage_manager=...) without
   preempt_mode, which therefore takes _dummy_init's default *)
PreemptModeOffCluster(preempt_mode) == DefaultPreemptMode

MultiSlotIgnored(nfo) == FALSE

(* len(info.container_addrs) > 1 or len(info.slot_ids) > 1 *)
MultiSlot(nfo) == nfo.container_addrs > 1 \/ nfo.slot_ids > 1

(* init(distributed, storage_manager, preempt_mode, tensorboard_mode): the
   exception raised ("none": it returns), the Sessions created, the Context *)
init(nfo, c) ==
    IF nfo = NoInfo
    THEN [raised |-> "none", sessions |-> 0,
          ctx |-> dummy_init(c.distributed, c.storage_manager,
                             PreemptModeOffCluster(c.preempt_mode))]
    ELSE IF c.distributed = NoDistributed /\ MultiSlot(nfo)
    THEN [raised |-> "ValueError", sessions |-> 1, ctx |-> NoContext]
    ELSE IF nfo.task_type = "TRIAL"
    THEN [raised |-> "none", sessions |-> 1,
          ctx |-> Context("real", OrConfigured(c.storage_manager),
                          OrDummy(c.distributed),
                          [kind |-> "real", mode |-> c.preempt_mode],
                          "real", "real", TRUE)]
    ELSE [raised |-> "none", sessions |-> 1,
          ctx |-> Context("dummy", OrSharedFS(c.storage_manager),
                          OrDummy(c.distributed),
                          [kind |-> "dummy", mode |-> c.preempt_mode],
                          "none", "none", FALSE)]

(* ---- initial state: the process has been launched, main() not yet run ---- *)
(* ---- PreemptContext: a background watcher and one flag ---- *)
(* start(): a PreemptContext starts its watcher, a DummyPreemptContext has none *)
WatcherAfterStart(ctx) == IF ctx.preempt.kind = "real" THEN "watching" ELSE "idle"

(* should_preempt(): a non-blocking read of the flag; the dummy context never
   preempts *)
should_preempt == core_context.preempt.kind = "real" /\ preempt_flag

FlagClearedOnClose(flag) == FALSE

(* close() stops the watcher and leaves the flag as it is *)
FlagAfterClose(flag) == flag

(* Running, PreemptRequested, Closed *)
PreemptState ==
    IF watcher = "stopped" THEN "Closed"
    ELSE IF preempt_flag THEN "PreemptRequested"
    ELSE "Running"

(* no metrics gathered *)
NoGather == [numeric |-> FALSE, values |-> <<>>, warned |-> FALSE]

(* no follow-on task, no Trainer.fit call and no CLI command is looked at *)
NoFollowOn == [size |-> 0]

NoFit == [pc |-> "off"]

NoKill == [pc |-> "off"]

NoTools ==
    /\ followon = NoFollowOn
    /\ fit = NoFit
    /\ cli = NoKill

(* no DSAT search runs beside the process *)
NoSearch ==
    /\ search_pc = "off"
    /\ running_trials = 0
    /\ operations = <<>>
    /\ events = <<>>
    /\ wrappers = <<>>

(* the state of a process that has run nothing yet *)
FreshProcess ==
    /\ pc = "main"
    /\ delivered = <<>>
    /\ response = EmptyResponse
    /\ acks = <<>>
    /\ num_batches = None
    /\ train_response_func = None
    /\ batches_processed_in_step = 0
    /\ step_metrics = <<>>
    /\ global_step = steps_completed
    /\ current_global_step = None
    /\ global_step_of_last_checkpoint = None
    /\ stop_requested = FALSE
    /\ train_writes = <<>>
    /\ val_writes = <<>>
    /\ model_saves = 0
    /\ store_entered = 0
    /\ uploaded = {}
    /\ registered = {}
    /\ metadata = <<>>
    /\ batches_run = 0
    /\ exc = "none"
    /\ invalid_hp_at = {}
    /\ graceful = 0
    /\ trial_closes = <<>>
    /\ ctx_log = <<>>
    /\ exit_code = None
    /\ call = NoCall
    /\ core_context = NoContext
    /\ sessions = 0
    /\ watcher = "idle"
    /\ preempt_flag = FALSE
    /\ preempt_seen = FALSE
    /\ mid_step_signal = FALSE
    /\ preempt_exits = 0
    /\ stored = <<>>
    /\ wlsq_state = 0
    /\ gathered = NoGather
    /\ run_stop = FALSE

(* a trial process started by a launch layer on the cluster: horovod when the trial
   has several slots, no distributed backend when it has one *)
TrialProcess ==
    /\ size \in 1..MaxRanks
    /\ rank \in 0..(size - 1)
    /\ caller = "harness"
    /\ info = [task_type |-> "TRIAL", container_addrs |-> 1, slot_ids |-> size,
               steps_completed |-> steps_completed]
    /\ backend = (IF size > 1 THEN "horovod" ELSE "none")
    /\ latest_checkpoint = <<>>
    /\ restarts = 0
    /\ NoSearch
    /\ NoTools
    /\ FreshProcess

(* env.steps_completed is what the trial has trained before this process *)
Init ==
    /\ steps_completed \in 0..MaxStartSteps
    /\ TrialProcess

(* ---- harness.main() up to Step 4 ---- *)
(* Step 3: the DistributedContext of the active backend, None when there is none *)
HarnessDistributed(b) == IF b = "none" THEN NoDistributed ELSE DistributedFrom(b)

(* with core.init(distributed=distributed, preempt_mode=core.PreemptMode.ChiefOnly,
                  tensorboard_mode=core.TensorboardMode.MANUAL) *)
HarnessCall(b) ==
    [distributed |-> HarnessDistributed(b), storage_manager |-> "none",
     preempt_mode |-> "ChiefOnly", tensorboard_mode |-> "MANUAL"]

(* the exception that ends main() before Step 4, "none" if there is none *)
HarnessRaises(nfo, b) ==
    IF nfo = NoInfo \/ nfo.task_type # "TRIAL" THEN "AssertionError"
    ELSE IF b = "none" /\ MultiSlot(nfo) THEN "ValueError"
    ELSE "none"

HarnessMain ==
    /\ pc = "main"
    /\ caller = "harness"
    /\ IF HarnessRaises(info, backend) = "none"
       THEN /\ call' = HarnessCall(backend)
            /\ pc' = "init"
            /\ UNCHANGED <<exc, exit_code>>
       ELSE /\ exc' = HarnessRaises(info, backend)
            /\ exit_code' = 1
            /\ pc' = "done"
            /\ UNCHANGED call
    /\ UNCHANGED <<tool_vars, search_vars, topo_vars, launch_vars, preempt_vars, restore_vars, gathered, run_stop,
                   core_context, sessions, delivered, response, acks, hook_vars,
                   save_vars, stop_requested, write_vars, ckpt_vars, batches_run,
                   invalid_hp_at, graceful, trial_closes, ctx_log>>

(* ---- core.init() and Context.__enter__ ---- *)
EnterLog(ctx) ==
    <<"preempt.start">>
    \o (IF ctx.tensorboard_manager THEN <<"tensorboard.start">> ELSE <<>>)

CoreInit ==
    /\ pc = "init"
    /\ LET r == init(info, call) IN
        /\ sessions' = sessions + r.sessions
        /\ core_context' = r.ctx
        /\ IF r.raised = "none"
           THEN /\ ctx_log' = ctx_log \o EnterLog(r.ctx)
                /\ watcher' = WatcherAfterStart(r.ctx)
                /\ pc' = "entered"
                /\ UNCHANGED <<exc, exit_code>>
           ELSE /\ exc' = r.raised
                /\ exit_code' = 1
                /\ pc' = "done"
                /\ UNCHANGED <<ctx_log, watcher>>
    /\ UNCHANGED <<tool_vars, search_vars, topo_vars, launch_vars, preempt_flag, preempt_seen, mid_step_signal,
                   preempt_exits, restore_vars, gathered, run_stop, call,
                   delivered, response, acks, hook_vars, save_vars, stop_requested,
                   write_vars, ckpt_vars, batches_run, invalid_hp_at, graceful,
                   trial_closes>>

(* Context.__enter__ raises after preempt.start(): the tensorboard manager's start()
   fails. The with statement calls __exit__ only when __enter__ has returned, so
   the exception leaves main() with nothing closed *)
EnterRaises ==
    /\ pc = "init"
    /\ LET r == init(info, call) IN
        /\ r.raised = "none"
        /\ r.ctx.tensorboard_manager
        /\ sessions' = sessions + r.sessions
        /\ core_context' = r.ctx
        /\ ctx_log' = ctx_log \o EnterLog(r.ctx)
        /\ watcher' = WatcherAfterStart(r.ctx)
    /\ exc' = "Error"
    /\ exit_code' = 1
    /\ pc' = "done"
    /\ UNCHANGED <<tool_vars, search_vars, topo_vars, launch_vars, preempt_flag, preempt_seen,
                   mid_step_signal, preempt_exits, restore_vars, gathered, run_stop, call,
                   delivered, response, acks, hook_vars, save_vars, stop_requested,
                   write_vars, ckpt_vars, batches_run, invalid_hp_at, graceful,
                   trial_closes>>

(* the trial class or the controller raises while being built inside the with-block *)
TrialInitRaises ==
    /\ pc = "entered"
    /\ \E e \in {"InvalidHP", "Error"} :
        /\ exc' = e
        /\ invalid_hp_at' = RaisedHP(e, 0)
    /\ pc' = "exiting"
    /\ UNCHANGED <<tool_vars, search_vars, proc_vars, preempt_vars, restore_vars, gathered, run_stop, delivered,
                   response, acks, hook_vars, save_vars, stop_requested, write_vars,
                   ckpt_vars, batches_run, graceful, trial_closes, ctx_vars>>

(* ---- the WorkloadSequencer state kept in a checkpoint ---- *)
(* pickle.dump / pickle.load of the sequencer state *)
Pickle(state) == <<"pickle", state>>

Unpickle(bytes) == bytes[2]

(* self.wlsq is not None: from_trial passes no workloads, so __init__ builds the
   sequencer with make_compatibility_workloads *)
HasSequencer == TRUE

WlsqNotLoaded(ckpt) == wlsq_state

(* _init_paths: the sequencer state after the restore: load_state(pickle.load(f))
   when the checkpoint holds workload_sequencer.pkl *)
WlsqLoaded(ckpt) ==
    IF HasSequencer /\ ckpt[1] # <<>> THEN Unpickle(ckpt[1][1]) ELSE wlsq_state

(* the controller is built (_init_paths restores from env.latest_checkpoint), then
   controller.run() -> train_and_evaluate -> DeterminedControlHook.begin() *)
Begin ==
    /\ pc = "entered"
    /\ wlsq_state' = IF latest_checkpoint = <<>>
                     THEN wlsq_state
                     ELSE WlsqLoaded(latest_checkpoint)
    /\ pc' = "awaiting"
    /\ UNCHANGED <<tool_vars, search_vars, proc_vars, preempt_vars, stored, latest_checkpoint, restarts,
                   gathered, run_stop, delivered, response, acks, hook_vars, save_vars,
                   stop_requested, write_vars, ckpt_vars, batches_run, exc,
                   invalid_hp_at, graceful, trial_closes, ctx_vars>>


(* ---- DeterminedControlHook.control_loop ---- *)
(* the loop variables: the (wkld, response_func) pair yielded last *)
wkld == IF delivered = <<>> THEN NoWorkload ELSE delivered[Len(delivered)]

response_func == Len(delivered)

(* what the workload stream receives when a response function is called *)
Ack(func, resp) ==
    [idx |-> func, kind |-> resp.kind, uuid |-> resp.uuid, batches |-> batches_run]

CallSkipsInvalidHP(func, resp) ==
    IF resp.kind = "invalid_hp" THEN acks ELSE Append(acks, Ack(func, resp))

(* response_func(response) / self.train_response_func(response) *)
CallResponseFunc(func, resp) == Append(acks, Ack(func, resp))

AfterPullContinues(w) == IF w.kind = "RUN_STEP" THEN "awaiting" ELSE "running"

(* RUN_STEP returns from control_loop into the training loop; the other kinds are
   handled inside the loop body *)
AfterPull(w) == IF w.kind = "RUN_STEP" THEN "training" ELSE "running"

(* the workload stream goes on only while no preemption is observed *)
StreamContinues == ~should_preempt

(* the number of workloads the sequencer has yielded, over all runs of the trial *)
wlsq_position == wlsq_state + Len(delivered)

(* the loop takes the pair (w, response_func) the stream yields; a RUN_STEP is stored
   for the training loop *)
Yields(w) ==
    /\ delivered' = Append(delivered, w)
    /\ IF w.kind = "RUN_STEP"
       THEN /\ num_batches' = w.num_batches
            /\ train_response_func' = Len(delivered) + 1
       ELSE UNCHANGED <<num_batches, train_response_func>>
    /\ pc' = AfterPull(w)
    /\ batches_run' = 0
    /\ UNCHANGED <<tool_vars, search_vars, proc_vars, preempt_vars, restore_vars, gathered, run_stop, response, acks,
                   batches_processed_in_step, step_metrics, steps_completed,
                   current_global_step, global_step, save_vars, stop_requested,
                   write_vars, ckpt_vars, exc, invalid_hp_at, graceful, trial_closes,
                   ctx_vars>>

(* the for statement yields the next (wkld, response_func) *)
PullWorkload ==
    /\ pc = "awaiting"
    /\ wlsq_position < MaxWorkloads
    /\ StreamContinues
    /\ \E w \in Workloads : Yields(w)

(* the workload stream is exhausted: the for loop ends and
   WorkerFinishedGracefully is raised *)
SequenceExhausted ==
    /\ pc = "awaiting"
    /\ graceful' = graceful + 1
    /\ exc' = "WorkerFinishedGracefully"
    /\ pc' = "raised"
    /\ UNCHANGED <<tool_vars, search_vars, proc_vars, preempt_vars, restore_vars, gathered, run_stop, delivered,
                   response, acks, hook_vars, save_vars, stop_requested, write_vars,
                   ckpt_vars, batches_run, invalid_hp_at, trial_closes, ctx_vars>>

SaveModelWheneverStarted ==
    IF current_global_step = None
    THEN UNCHANGED <<global_step_of_last_checkpoint, model_saves>>
    ELSE /\ global_step_of_last_checkpoint' = current_global_step
         /\ model_saves' = model_saves + 1

(* DeterminedControlHook._save_model *)
SaveModel ==
    IF current_global_step = None
       \/ (global_step_of_last_checkpoint # None
           /\ global_step_of_last_checkpoint = current_global_step)
    THEN UNCHANGED <<global_step_of_last_checkpoint, model_saves>>
    ELSE /\ global_step_of_last_checkpoint' = current_global_step
         /\ model_saves' = model_saves + 1

(* the value of one metric: a number num/den, or (numeric = FALSE) an opaque
   non-numeric value named by num *)
Metric(numeric, num, den) == [numeric |-> numeric, num |-> num, den |-> den]

average_metrics_own_value(numeric, all_metrics) ==
    IF rank # 0 THEN <<>> ELSE <<Metric(numeric, all_metrics[rank + 1], 1)>>

(* EstimatorTrialController.average_metrics on the values of one metric gathered in
   rank order: None off the chief; on the chief the sum over the ranks divided by
   the number of ranks (kept exact as num/den) when the chief's own value is a
   number, and the chief's own value, with a warning, when it is not *)
average_metrics(numeric, all_metrics) ==
    IF ~is_chief THEN <<>>
    ELSE IF numeric THEN <<Metric(TRUE, SumSeq(all_metrics), size)>>
    ELSE <<Metric(FALSE, all_metrics[rank + 1], 1)>>

(* logging.warning(f"Skipping averaging metric: {key}."): in average_metrics, on
   the chief, for a value that is not a number *)
average_metrics_warns(numeric) == size > 1 /\ is_chief /\ ~numeric

(* EstimatorTrialController.compute_validation_metrics: {} off the chief,
   {"validation_metrics": metrics} on it *)
compute_validation_metrics(numeric, all_metrics) ==
    LET own == <<Metric(numeric, all_metrics[rank + 1], 1)>>
        metrics == IF size > 1 THEN average_metrics(numeric, all_metrics) ELSE own
    IN IF ~is_chief THEN <<>> ELSE metrics

ValidationResponse(metrics, stop) == MetricsResponse(metrics, stop)

WritesValidationAlways == TRUE

EarlyStoppingHookIgnoresRequest(requested, flag) ==
    [run_stop |-> requested, stop_requested |-> flag]

(* DeterminedEarlyStoppingHook.after_run: a stop request on the run context is
   cleared there and recorded on the trial context *)
EarlyStoppingHook(requested, flag) ==
    [run_stop |-> IF requested THEN FALSE ELSE requested,
     stop_requested |-> IF requested THEN TRUE ELSE flag]

(* _init_train_hooks appends DeterminedControlHook after DeterminedEarlyStoppingHook *)
ControlHookIsLast == TRUE

(* context.get_stop_requested() as the control hook's after_run reads it *)
get_stop_requested(requested, flag) ==
    IF ControlHookIsLast THEN EarlyStoppingHook(requested, flag).stop_requested ELSE flag

(* isinstance(metrics, Dict) and is_chief, and the guard of _write_validation_metrics *)
WritesValidationMetrics == is_chief

ComputeValidationMetrics ==
    /\ pc = "running"
    /\ wkld.kind = "COMPUTE_VALIDATION_METRICS"
    /\ SaveModel
    /\ \E outcome \in {"ok", "InvalidHP", "Error"}, stop \in BOOLEAN,
          numeric \in BOOLEAN, all_metrics \in [1..size -> MetricVals] :
        /\ stop_requested' = EarlyStoppingHook(stop, stop_requested).stop_requested
        /\ invalid_hp_at' = RaisedHP(outcome, Len(delivered))
        /\ CASE outcome = "ok" ->
                 LET metrics == compute_validation_metrics(numeric, all_metrics) IN
                 /\ response' = ValidationResponse(metrics, stop_requested')
                 /\ val_writes' =
                        IF WritesValidationMetrics
                        THEN Append(val_writes, steps_completed)
                        ELSE val_writes
                 /\ gathered' = [numeric |-> numeric, values |-> all_metrics,
                                  warned |-> average_metrics_warns(numeric)]
                 /\ UNCHANGED run_stop
                 /\ pc' = "reporting"
                 /\ UNCHANGED exc
             [] outcome = "InvalidHP" ->
                 /\ response' = InvalidHPResponse
                 /\ pc' = "reporting"
                 /\ UNCHANGED <<val_writes, exc, gathered, run_stop>>
             [] outcome = "Error" ->
                 /\ exc' = "Error"
                 /\ pc' = "raised"
                 /\ UNCHANGED <<val_writes, response, gathered, run_stop>>
    /\ UNCHANGED <<tool_vars, search_vars, proc_vars, preempt_vars, restore_vars, delivered, acks,
                   hook_vars, train_writes, ckpt_vars, batches_run, graceful,
                   trial_closes, ctx_vars>>

(* CheckpointContext.store_path on leaving the with-block: upload and registration
   on a normal exit, neither when the body raised *)
StorePathUploaded(ok, storage_id) ==
    IF ok THEN uploaded \cup {storage_id} ELSE uploaded

StorePathRegisteredAlways(ok, storage_id) ==
    IF rank = 0 THEN registered \cup {storage_id} ELSE registered

StorePathRegistered(ok, storage_id) ==
    IF ok /\ rank = 0 THEN registered \cup {storage_id} ELSE registered

(* WorkloadSequencer.get_state(): the sequencer's position *)
wlsq_get_state == wlsq_position

(* _checkpoint_model: workload_sequencer.pkl in the checkpoint directory, <<>> when
   it is not written *)
SequencerFile == IF HasSequencer THEN <<Pickle(wlsq_get_state)>> ELSE <<>>

(* what the storage holds for the checkpoint after store_path is left *)
StorePathStored(ok, storage_id, file) ==
    IF ok THEN (storage_id :> file) @@ stored ELSE stored

(* the metadata handed to core.checkpoint.store_path *)
CheckpointMetadata == [steps_completed |-> steps_completed, format |-> "saved_model"]

EntersStorePathAlways == TRUE

(* if self.estimator_trial_controller.is_chief: with core.checkpoint.store_path(...) *)
EntersStorePath == is_chief

CheckpointResponseDropped(storage_id) == EmptyResponse

(* response = {"uuid": storage_id} *)
CheckpointResponse(storage_id) == UuidResponse(storage_id)

CheckpointModel ==
    /\ pc = "running"
    /\ wkld.kind = "CHECKPOINT_MODEL"
    /\ SaveModel
    /\ IF EntersStorePath
       THEN \E outcome \in {"ok", "InvalidHP", "Error"} :
            LET storage_id == store_entered + 1 IN
            /\ store_entered' = store_entered + 1
            /\ uploaded' = StorePathUploaded(outcome = "ok", storage_id)
            /\ registered' = StorePathRegistered(outcome = "ok", storage_id)
            /\ stored' = StorePathStored(outcome = "ok", storage_id, SequencerFile)
            /\ metadata' = Append(metadata, CheckpointMetadata)
            /\ invalid_hp_at' = RaisedHP(outcome, Len(delivered))
            /\ CASE outcome = "ok" ->
                     /\ response' = CheckpointResponse(storage_id)
                     /\ pc' = "reporting"
                     /\ UNCHANGED exc
                 [] outcome = "InvalidHP" ->
                     /\ response' = InvalidHPResponse
                     /\ pc' = "reporting"
                     /\ UNCHANGED exc
                 [] outcome = "Error" ->
                     /\ exc' = "Error"
                     /\ pc' = "raised"
                     /\ UNCHANGED response
       ELSE /\ \/ /\ response' = EmptyResponse
                  /\ pc' = "reporting"
                  /\ UNCHANGED exc
               \/ /\ exc' = "Error"
                  /\ pc' = "raised"
                  /\ UNCHANGED response
            /\ UNCHANGED <<ckpt_vars, stored, invalid_hp_at>>
    /\ UNCHANGED <<tool_vars, search_vars, proc_vars, preempt_vars, latest_checkpoint, wlsq_state, restarts,
                   gathered, run_stop, delivered, acks,
                   hook_vars, stop_requested, write_vars, batches_run, graceful,
                   trial_closes, ctx_vars>>

UnknownKindAnsweredInvalidHP ==
    /\ pc = "running"
    /\ wkld.kind \notin {"RUN_STEP", "COMPUTE_VALIDATION_METRICS", "CHECKPOINT_MODEL"}
    /\ response' = InvalidHPResponse
    /\ pc' = "reporting"
    /\ UNCHANGED <<tool_vars, search_vars, proc_vars, preempt_vars, restore_vars, gathered, run_stop, delivered, acks,
                   hook_vars, save_vars, stop_requested, write_vars, ckpt_vars,
                   batches_run, exc, invalid_hp_at, graceful, trial_closes, ctx_vars>>

(* else: raise AssertionError(f"Unknown wkld kind ..."); except det.InvalidHP does
   not catch it *)
UnknownKind ==
    /\ pc = "running"
    /\ wkld.kind \notin {"RUN_STEP", "COMPUTE_VALIDATION_METRICS", "CHECKPOINT_MODEL"}
    /\ exc' = "AssertionError"
    /\ pc' = "raised"
    /\ UNCHANGED <<tool_vars, search_vars, proc_vars, preempt_vars, restore_vars, gathered, run_stop, delivered,
                   response, acks, hook_vars, save_vars, stop_requested, write_vars,
                   ckpt_vars, batches_run, invalid_hp_at, graceful, trial_closes,
                   ctx_vars>>

(* the bottom of the loop body: response_func(response) *)
Respond ==
    /\ pc = "reporting"
    /\ acks' = CallResponseFunc(response_func, response)
    /\ response' = EmptyResponse
    /\ gathered' = NoGather
    /\ pc' = "awaiting"
    /\ UNCHANGED run_stop
    /\ UNCHANGED <<tool_vars, search_vars, proc_vars, preempt_vars, restore_vars, delivered,
                   hook_vars, save_vars, stop_requested, write_vars, ckpt_vars,
                   batches_run, exc, invalid_hp_at, graceful, trial_closes, ctx_vars>>


(* ---- DeterminedControlHook.after_run ---- *)
(* _collect_batch_metrics: the summary values of the batch just run, named here by
   the global step the batch produced *)
BatchMetrics(step) == step

StepsAfterBatchCountsWorkloads(n) ==
    IF batches_processed_in_step + 1 < num_batches THEN n ELSE n + 1

(* self.steps_completed += 1, once in every after_run *)
StepsAfterBatch(n) == n + 1

StepUnfinishedOffByOne(processed, num) == processed <= num

StepUnfinishedUnlessPreempted(processed, num) == processed < num /\ ~preempt_flag

(* if self.batches_processed_in_step < self.num_batches: return *)
StepUnfinished(processed, num) == processed < num

TrainResponseOnEveryRank(metrics, stop) == MetricsResponse(metrics, stop)

(* the response of a finished RUN_STEP: metrics and stop flag on the chief, {} elsewhere *)
TrainResponse(metrics, stop) ==
    IF is_chief THEN MetricsResponse(metrics, stop) ELSE EmptyResponse

WritesTrainMetricsOnEveryRank == TRUE

(* metric_writer.on_train_step_end is called in the chief's branch only *)
WritesTrainMetrics == is_chief

(* one training batch has run, in which the framework may have raised a stop
   request: the train hooks' after_run in their order; the training loop goes on
   unless the run context still asks to stop *)
AfterRun ==
    /\ pc = "training"
    /\ global_step' = global_step + 1
    /\ current_global_step' = global_step'
    /\ steps_completed' = StepsAfterBatch(steps_completed)
    /\ step_metrics' = Append(step_metrics, BatchMetrics(global_step'))
    /\ batches_processed_in_step' = batches_processed_in_step + 1
    /\ batches_run' = batches_run + 1
    /\ \E stop \in BOOLEAN :
        /\ run_stop' = stop
        /\ stop_requested' = EarlyStoppingHook(stop, stop_requested).stop_requested
        /\ IF StepUnfinished(batches_processed_in_step', num_batches)
           THEN /\ pc' = IF EarlyStoppingHook(stop, stop_requested).run_stop
                         THEN "returned" ELSE "training"
                /\ UNCHANGED <<response, train_writes, exc>>
           ELSE IF train_response_func = None
           THEN /\ exc' = "Error"
                /\ pc' = "raised"
                /\ UNCHANGED <<response, train_writes>>
           ELSE /\ response' = TrainResponse(step_metrics',
                                             get_stop_requested(stop, stop_requested))
                /\ train_writes' =
                       IF WritesTrainMetrics
                       THEN Append(train_writes, steps_completed')
                       ELSE train_writes
                /\ pc' = "train_reporting"
                /\ UNCHANGED exc
    /\ UNCHANGED <<tool_vars, search_vars, proc_vars, preempt_vars, restore_vars, gathered,
                   delivered, acks, num_batches, train_response_func, save_vars,
                   val_writes, ckpt_vars, invalid_hp_at, graceful, trial_closes,
                   ctx_vars>>

StepResetKeepsMetrics ==
    [train_response_func |-> None, batches_processed_in_step |-> 0,
     step_metrics |-> step_metrics]

(* Reset step counter and clear the step metrics from memory *)
StepReset ==
    [train_response_func |-> None, batches_processed_in_step |-> 0,
     step_metrics |-> <<>>]

(* self.train_response_func(response), the reset, and re-entering control_loop *)
TrainRespond ==
    /\ pc = "train_reporting"
    /\ acks' = CallResponseFunc(train_response_func, response)
    /\ train_response_func' = StepReset.train_response_func
    /\ batches_processed_in_step' = StepReset.batches_processed_in_step
    /\ step_metrics' = StepReset.step_metrics
    /\ response' = EmptyResponse
    /\ pc' = "awaiting"
    /\ UNCHANGED <<tool_vars, search_vars, proc_vars, preempt_vars, restore_vars, gathered, run_stop, delivered,
                   num_batches, steps_completed, current_global_step, global_step,
                   save_vars, stop_requested, write_vars, ckpt_vars, batches_run, exc,
                   invalid_hp_at, graceful, trial_closes, ctx_vars>>

(* the training step (model_fn, input_fn, a user hook) raises *)
TrainBatchRaises ==
    /\ pc = "training"
    /\ \E e \in {"InvalidHP", "Error"} :
        /\ exc' = e
        /\ invalid_hp_at' = RaisedHP(e, Len(delivered))
    /\ pc' = "raised"
    /\ UNCHANGED <<tool_vars, search_vars, proc_vars, preempt_vars, restore_vars, gathered, run_stop, delivered,
                   response, acks, hook_vars, save_vars, stop_requested, write_vars,
                   ckpt_vars, batches_run, graceful, trial_closes, ctx_vars>>

(* train_and_evaluate returns by itself (max_steps, a user callback) *)
TrainLoopReturns ==
    /\ pc = "training"
    /\ pc' = "returned"
    /\ UNCHANGED <<tool_vars, search_vars, proc_vars, preempt_vars, restore_vars, gathered, run_stop, delivered,
                   response, acks, hook_vars, save_vars, stop_requested, write_vars,
                   ckpt_vars, batches_run, exc, invalid_hp_at, graceful, trial_closes,
                   ctx_vars>>

(* ---- EstimatorTrialController.run: try / except / else / finally ---- *)
RunOutcomePropagates(returned, e) ==
    IF returned THEN "AssertionError" ELSE e

(* what leaves run(): WorkerFinishedGracefully is absorbed, a plain return of the
   training loop becomes AssertionError, anything else propagates *)
RunOutcome(returned, e) ==
    IF returned THEN "AssertionError"
    ELSE IF e = "WorkerFinishedGracefully" THEN "none"
    ELSE e

(* the hooks of the user's train spec: here one RunHook and one plain SessionRunHook *)
user_train_hooks == <<"UserRunHook", "UserSessionRunHook">>

(* _init_train_hooks: the user's hooks, the early-stopping hook, horovod's broadcast
   hook when there are several ranks, and the control hook *)
train_hooks ==
    user_train_hooks
    \o <<"DeterminedEarlyStoppingHook">>
    \o (IF size > 1 THEN <<"BroadcastGlobalVariablesHook">> ELSE <<>>)
    \o <<"DeterminedControlHook">>

(* isinstance(callback, estimator.RunHook) *)
IsRunHook(callback) == callback \in {"UserRunHook", "DeterminedControlHook"}

OnTrialCloseUnlessError(hooks) ==
    IF exc \in {"Error", "InvalidHP"} THEN <<>> ELSE SelectSeq(hooks, IsRunHook)

(* the finally clause of run(): callback.on_trial_close() on every RunHook of
   train_hooks, in list order *)
OnTrialClose(hooks) == SelectSeq(hooks, IsRunHook)

RunExit ==
    /\ pc \in {"raised", "returned"}
    /\ exc' = RunOutcome(pc = "returned", exc)
    /\ trial_closes' = trial_closes \o OnTrialClose(train_hooks)
    /\ pc' = "exiting"
    /\ UNCHANGED <<tool_vars, search_vars, proc_vars, preempt_vars, restore_vars, gathered, run_stop, delivered,
                   response, acks, hook_vars, save_vars, stop_requested, write_vars,
                   ckpt_vars, batches_run, invalid_hp_at, graceful, ctx_vars>>

(* ---- Context.__exit__(typ, value, tb), then the end of main() ---- *)
(* preempt.close(), distributed.close(), and the tensorboard manager's close() if
   there is one *)
CloseLog ==
    <<"preempt.close", "distributed.close">>
    \o (IF core_context.tensorboard_manager THEN <<"tensorboard.close">> ELSE <<>>)

ExitLogNoReport(value) ==
    CloseLog \o (IF value = "InvalidHP" THEN <<"exit(0)">> ELSE <<>>)

ExitLogReportsBeforeClosing(value) ==
    (IF value = "InvalidHP" THEN <<"report_early_exit(INVALID_HP)">> ELSE <<>>)
    \o CloseLog
    \o (IF value = "InvalidHP" THEN <<"exit(0)">> ELSE <<>>)

ExitLog(value) ==
    CloseLog
    \o (IF value = "InvalidHP"
        THEN <<"report_early_exit(INVALID_HP)", "exit(0)">>
        ELSE <<>>)

ExitCodeAlwaysClean(value) == 0

(* exit(0) on InvalidHP; main() returns 0 to sys.exit; an uncaught exception ends the
   interpreter with status 1 *)
ExitCode(value) ==
    IF value = "InvalidHP" THEN 0
    ELSE IF value = "none" THEN 0
    ELSE 1

ContextExit ==
    /\ pc = "exiting"
    /\ ctx_log' = ctx_log \o ExitLog(exc)
    /\ exit_code' = ExitCode(exc)
    /\ watcher' = "stopped"
    /\ preempt_flag' = FlagAfterClose(preempt_flag)
    /\ pc' = "done"
    /\ UNCHANGED <<tool_vars, search_vars, proc_vars, preempt_seen, mid_step_signal, preempt_exits, restore_vars,
                   gathered, run_stop, delivered,
                   response, acks, hook_vars, save_vars, stop_requested, write_vars,
                   ckpt_vars, batches_run, exc, invalid_hp_at, graceful, trial_closes>>

Next ==
    \/ HarnessMain
    \/ CoreInit
    \/ TrialInitRaises
    \/ Begin
    \/ PullWorkload
    \/ SequenceExhausted
    \/ ComputeValidationMetrics
    \/ CheckpointModel
    \/ UnknownKind
    \/ Respond
    \/ AfterRun
    \/ TrainRespond
    \/ TrainBatchRaises
    \/ TrainLoopReturns
    \/ RunExit
    \/ ContextExit

Spec == Init /\ [][Next]_vars

(* ---- `with core.init(...) as core_context:` run by any caller, in any
   environment ---- *)
InitInit ==
    /\ size \in 1..MaxRanks
    /\ rank \in 0..(size - 1)
    /\ caller \in {"harness", "user"}
    /\ info \in {NoInfo} \cup ClusterInfos
    /\ backend \in Backends
    /\ steps_completed = 0
    /\ latest_checkpoint = <<>>
    /\ restarts = 0
    /\ NoSearch
    /\ NoTools
    /\ FreshProcess

(* user code calls core.init() with arguments of its choice *)
UserCall ==
    /\ pc = "main"
    /\ caller = "user"
    /\ \E c \in Calls :
        /\ c.distributed \in {NoDistributed, HarnessDistributed(backend)}
        /\ call' = c
    /\ pc' = "init"
    /\ UNCHANGED <<tool_vars, search_vars, topo_vars, launch_vars, preempt_vars, restore_vars, gathered, run_stop,
                   core_context, sessions, delivered, response, acks, hook_vars,
                   save_vars, stop_requested, write_vars, ckpt_vars, batches_run, exc,
                   invalid_hp_at, graceful, trial_closes, ctx_vars>>

(* the body of the user's with-block ends without an exception *)
BodyReturns ==
    /\ pc = "entered"
    /\ caller = "user"
    /\ pc' = "exiting"
    /\ UNCHANGED <<tool_vars, search_vars, proc_vars, preempt_vars, restore_vars, gathered, run_stop, delivered,
                   response, acks, hook_vars, save_vars, stop_requested, write_vars,
                   ckpt_vars, batches_run, exc, invalid_hp_at, graceful, trial_closes,
                   ctx_vars>>

(* ---- preemption ---- *)
(* the background watcher learns that the controller asked the task to stop and
   sets the flag; nothing else in the process changes *)
WatcherSignals ==
    /\ watcher = "watching"
    /\ ~preempt_flag
    /\ preempt_flag' = TRUE
    /\ mid_step_signal' = (pc = "training")
    /\ UNCHANGED <<tool_vars, search_vars, proc_vars, watcher, preempt_seen, preempt_exits, restore_vars,
                   gathered, run_stop, pc, delivered, response, acks, hook_vars, save_vars,
                   stop_requested, write_vars, ckpt_vars, batches_run, exc,
                   invalid_hp_at, graceful, trial_closes, ctx_vars>>

(* some code holding the Context calls should_preempt() and is answered True *)
ShouldPreempt ==
    /\ pc \in {"entered", "exiting", "done"}
    /\ core_context # NoContext
    /\ should_preempt
    /\ ~preempt_seen
    /\ preempt_seen' = TRUE
    /\ UNCHANGED <<tool_vars, search_vars, proc_vars, watcher, preempt_flag, mid_step_signal, preempt_exits,
                   restore_vars, gathered, run_stop, pc, delivered, response, acks, hook_vars,
                   save_vars, stop_requested, write_vars, ckpt_vars, batches_run, exc,
                   invalid_hp_at, graceful, trial_closes, ctx_vars>>

(* at the top of the loop the workload stream finds should_preempt() true: it
   reports the early exit and yields nothing more, so the for loop ends and
   control_loop raises WorkerFinishedGracefully *)
StreamPreempted ==
    /\ pc = "awaiting"
    /\ ~StreamContinues
    /\ preempt_seen' = TRUE
    /\ preempt_exits' = preempt_exits + 1
    /\ graceful' = graceful + 1
    /\ exc' = "WorkerFinishedGracefully"
    /\ pc' = "raised"
    /\ UNCHANGED <<tool_vars, search_vars, proc_vars, watcher, preempt_flag, mid_step_signal, restore_vars,
                   gathered, run_stop, delivered, response, acks, hook_vars, save_vars,
                   stop_requested, write_vars, ckpt_vars, batches_run, invalid_hp_at,
                   trial_closes, ctx_vars>>

InitNext ==
    \/ HarnessMain
    \/ UserCall
    \/ CoreInit
    \/ EnterRaises
    \/ TrialInitRaises
    \/ BodyReturns
    \/ ContextExit
    \/ WatcherSignals
    \/ ShouldPreempt

(* a trial process whose task the controller may preempt at any moment *)
PreemptNext ==
    \/ Next
    \/ WatcherSignals
    \/ StreamPreempted

(* a trial that has not trained yet *)
FreshTrial ==
    /\ steps_completed = 0
    /\ TrialProcess

PreemptSpec == FreshTrial /\ [][PreemptNext]_vars

(* ---- restoring a trial from a checkpoint ---- *)
(* the run has ended; the trial is started again with env.latest_checkpoint naming a
   checkpoint that rank 0 of the ended run registered; the new process (of any
   rank) starts from scratch *)
Restart ==
    /\ pc = "done"
    /\ restarts = 0
    /\ rank = 0
    /\ \E storage_id \in registered : latest_checkpoint' = <<stored[storage_id]>>
    /\ restarts' = restarts + 1
    /\ rank' \in 0..(size - 1)
    /\ steps_completed' \in 0..MaxStartSteps
    /\ pc' = "main"
    /\ delivered' = <<>>
    /\ response' = EmptyResponse
    /\ acks' = <<>>
    /\ num_batches' = None
    /\ train_response_func' = None
    /\ batches_processed_in_step' = 0
    /\ step_metrics' = <<>>
    /\ global_step' = steps_completed'
    /\ current_global_step' = None
    /\ global_step_of_last_checkpoint' = None
    /\ stop_requested' = FALSE
    /\ train_writes' = <<>>
    /\ val_writes' = <<>>
    /\ model_saves' = 0
    /\ store_entered' = 0
    /\ uploaded' = {}
    /\ registered' = {}
    /\ metadata' = <<>>
    /\ batches_run' = 0
    /\ exc' = "none"
    /\ invalid_hp_at' = {}
    /\ graceful' = 0
    /\ trial_closes' = <<>>
    /\ ctx_log' = <<>>
    /\ exit_code' = None
    /\ call' = NoCall
    /\ core_context' = NoContext
    /\ sessions' = 0
    /\ watcher' = "idle"
    /\ preempt_flag' = FALSE
    /\ preempt_seen' = FALSE
    /\ mid_step_signal' = FALSE
    /\ preempt_exits' = 0
    /\ stored' = <<>>
    /\ wlsq_state' = 0
    /\ gathered' = NoGather
    /\ run_stop' = FALSE
    /\ info' = [info EXCEPT !.steps_completed = steps_completed']
    /\ UNCHANGED <<tool_vars, search_vars, size, caller, backend>>

RestoreNext ==
    \/ Next
    \/ Restart

RestoreSpec == FreshTrial /\ [][RestoreNext]_vars

InitSpec == InitInit /\ [][InitNext]_vars

(* ---- the scenario: 4 ranks, three RUN_STEPs of 10 batches, one CHECKPOINT_MODEL,
   one COMPUTE_VALIDATION_METRICS, then the end of the sequence ---- *)
ScenarioRanks == 4

ScenarioBatches == 10

RunStep(n) == [kind |-> "RUN_STEP", num_batches |-> n]

ScenarioWorkloads ==
    <<RunStep(ScenarioBatches), RunStep(ScenarioBatches), RunStep(ScenarioBatches),
      [kind |-> "CHECKPOINT_MODEL", num_batches |-> 0],
      [kind |-> "COMPUTE_VALIDATION_METRICS", num_batches |-> 0]>>

(* one of the scenario's processes, on a trial that has not trained yet *)
ScenarioInit ==
    /\ size = ScenarioRanks
    /\ rank \in 0..(size - 1)
    /\ caller = "harness"
    /\ info = [task_type |-> "TRIAL", container_addrs |-> 1, slot_ids |-> size,
               steps_completed |-> 0]
    /\ backend = "horovod"
    /\ steps_completed = info.steps_completed
    /\ latest_checkpoint = <<>>
    /\ restarts = 0
    /\ NoSearch
    /\ NoTools
    /\ FreshProcess

(* the stream yields the scenario's next workload *)
ScenarioPull ==
    /\ pc = "awaiting"
    /\ Len(delivered) < Len(ScenarioWorkloads)
    /\ Yields(ScenarioWorkloads[Len(delivered) + 1])

(* the stream ends after the scenario's last workload *)
ScenarioExhausted ==
    /\ Len(delivered) = Len(ScenarioWorkloads)
    /\ SequenceExhausted

ScenarioNext ==
    \/ HarnessMain
    \/ CoreInit
    \/ TrialInitRaises
    \/ Begin
    \/ ScenarioPull
    \/ ScenarioExhausted
    \/ ComputeValidationMetrics
    \/ CheckpointModel
    \/ Respond
    \/ AfterRun
    \/ TrainRespond
    \/ TrainBatchRaises
    \/ TrainLoopReturns
    \/ RunExit
    \/ ContextExit

ScenarioSpec == ScenarioInit /\ [][ScenarioNext]_vars

(* ---- the DSAT search: dsat_searcher.py (the search method) and
   dsat_experiment_wrapper.py (the process of each trial it creates) ---- *)
MODEL_INFO_MAX_LENGTH == 5

(* len(_get_list_of_hparams()): 2 * [self.original_config_dict] *)
NumHparams == 2

(* bounds of the operation stream a wrapper is run against *)
MaxOps == 2
MaxLength == 2

(* searcher.Create / ValidateAfter / Close / Shutdown *)
Create(request_id) == [op |-> "Create", request_id |-> request_id, length |-> 0]

ValidateAfter(request_id, length) ==
    [op |-> "ValidateAfter", request_id |-> request_id, length |-> length]

Close(request_id) == [op |-> "Close", request_id |-> request_id, length |-> 0]

Shutdown == [op |-> "Shutdown", request_id |-> 0, length |-> 0]

OpsOf(ops, kind) == SelectSeq(ops, LAMBDA o : o.op = kind)

OpsFor(ops, kind, request_id) ==
    SelectSeq(ops, LAMBDA o : o.op = kind /\ o.request_id = request_id)

(* uuid.uuid4(): an id that no earlier Create carries *)
uuid4(ops) == Len(OpsOf(ops, "Create")) + 1

(* DSATSearchMethod.initial_operations: the loop over the first n hp dicts *)
RECURSIVE InitialOperations(_)
InitialOperations(n) ==
    IF n = 0 THEN <<>>
    ELSE LET before == InitialOperations(n - 1)
             create == Create(uuid4(before))
             run == ValidateAfter(create.request_id, MODEL_INFO_MAX_LENGTH)
         IN before \o <<create, run>>

initial_operations == InitialOperations(NumHparams)

(* the handlers of DSATSearchMethod: the new running_trials and the operations
   returned *)
on_trial_created(trials, request_id) ==
    [running_trials |-> trials + 1, ops |-> <<>>]

on_validation_completed_closes_nothing(request_id, metric, train_length) == <<>>

on_validation_completed(request_id, metric, train_length) == <<Close(request_id)>>

on_trial_closed(trials, request_id) ==
    [running_trials |-> trials - 1,
     ops |-> IF trials - 1 = 0 THEN <<Shutdown>> ELSE <<>>]

on_trial_exited_early(trials, request_id) ==
    [running_trials |-> trials, ops |-> <<>>]

(* the searcher events delivered so far of one kind for one trial *)
Delivered(kind, request_id) ==
    Len(SelectSeq(events, LAMBDA e : e = <<kind, request_id>>))

ShutdownIssued == Len(OpsOf(operations, "Shutdown")) > 0

(* info.trial.hparams: the trial's original config, by the parts the wrapper
   touches: suffixes appended to the name, stages appended to the entrypoint, the
   searcher block and whether ds_config holds the flops-profiler config *)
original_config_dict ==
    [name_suffixes |-> 0, entrypoint_stages |-> 0,
     searcher |-> [name |-> "custom", max_length |-> 0], flops_profiler |-> FALSE]

(* the loop body's edits of profiling_config_dict for an operation of that length *)
ProfilingConfig(config, length) ==
    [name_suffixes |-> config.name_suffixes + 1,
     entrypoint_stages |-> config.entrypoint_stages + 1,
     searcher |-> [name |-> "single", max_length |-> length],
     flops_profiler |-> TRUE]

(* a wrapper process that has not started; profiling_config_dict is the deep copy
   made before the loop *)
IdleWrapper ==
    [pc |-> "off", taken |-> 0, length |-> 0, metric |-> 0, log |-> <<>>,
     profiling_config_dict |-> original_config_dict, submitted |-> <<>>]

(* the calls of one name a wrapper has made *)
CallsBy(w, name) == SelectSeq(w.log, LAMBDA c : c[1] = name)

(* the search runner asks the method for its first operations *)
SearchStarts ==
    /\ search_pc = "start"
    /\ operations' = operations \o initial_operations
    /\ search_pc' = "running"
    /\ UNCHANGED running_trials

(* the runner delivers one event to the method and issues what it returns; after
   Shutdown it delivers nothing more *)
Deliver(kind, request_id, result) ==
    /\ events' = Append(events, <<kind, request_id>>)
    /\ running_trials' = result.running_trials
    /\ operations' = operations \o result.ops
    /\ search_pc' = IF Len(OpsOf(result.ops, "Shutdown")) > 0
                    THEN "shutdown" ELSE search_pc

TrialCreated(r) ==
    /\ search_pc = "running"
    /\ Len(OpsFor(operations, "Create", r)) > 0
    /\ Delivered("created", r) = 0
    /\ Deliver("created", r, on_trial_created(running_trials, r))

ValidationCompleted(r) ==
    /\ search_pc = "running"
    /\ Delivered("created", r) > 0
    /\ Delivered("validated", r) < Len(CallsBy(wrappers[r], "report_completed"))
    /\ Deliver("validated", r,
               [running_trials |-> running_trials,
                ops |-> on_validation_completed(r, wrappers[r].metric,
                                                wrappers[r].length)])

TrialClosed(r) ==
    /\ search_pc = "running"
    /\ Delivered("created", r) > 0
    /\ wrappers[r].pc = "returned"
    /\ Delivered("closed", r) = 0
    /\ Deliver("closed", r, on_trial_closed(running_trials, r))

TrialExitedEarly(r) ==
    /\ search_pc = "running"
    /\ Delivered("created", r) > 0
    /\ wrappers[r].pc = "raised"
    /\ Delivered("exited_early", r) = 0
    /\ Deliver("exited_early", r, on_trial_exited_early(running_trials, r))

(* ---- dsat_experiment_wrapper.main ---- *)
(* the trial the Create asked for starts its process, which enters the for loop *)
WrapperStarts(r) ==
    /\ wrappers[r].pc = "off"
    /\ Len(OpsFor(operations, "Create", r)) > 0
    /\ wrappers' = [wrappers EXCEPT ![r].pc = "polling"]

(* searcher.operations() yields the trial's next ValidateAfter *)
WrapperNextOp(r) ==
    LET w == wrappers[r]
        mine == OpsFor(operations, "ValidateAfter", r)
    IN /\ w.pc = "polling"
       /\ w.taken < Len(mine)
       /\ wrappers' = [wrappers EXCEPT ![r].pc = "training",
                                       ![r].taken = w.taken + 1,
                                       ![r].length = mine[w.taken + 1].length]

(* searcher.operations() ends: the trial is closed or the search shut down *)
WrapperSequenceEnds(r) ==
    LET w == wrappers[r] IN
    /\ w.pc = "polling"
    /\ w.taken = Len(OpsFor(operations, "ValidateAfter", r))
    /\ Len(OpsFor(operations, "Close", r)) > 0 \/ ShutdownIssued
    /\ wrappers' = [wrappers EXCEPT ![r].pc = "returned"]

report_completed_first(w) ==
    <<<<"report_completed", w.metric>>, <<"report_validation_metrics", 0>>>>

(* core_context.train.report_validation_metrics(steps_completed=0, metrics=...),
   then op.report_completed(results_dict[metric]) *)
Reports(w) ==
    <<<<"report_validation_metrics", 0>>, <<"report_completed", w.metric>>>>

(* create_experiment with max_length = op.length, exp.wait(), and reading the
   results: any of these may raise *)
WrapperTrains(r) ==
    /\ wrappers[r].pc = "training"
    /\ \E ok \in BOOLEAN, m \in MetricVals :
        wrappers' = [wrappers EXCEPT
            ![r].pc = IF ok THEN "trained" ELSE "raised",
            ![r].metric = IF ok THEN m ELSE @,
            ![r].profiling_config_dict = ProfilingConfig(@, wrappers[r].length),
            ![r].submitted =
                Append(@, ProfilingConfig(wrappers[r].profiling_config_dict,
                                          wrappers[r].length)),
            ![r].log = Append(@, <<"create_experiment", wrappers[r].length>>)]

WrapperReportsMetrics(r) ==
    /\ wrappers[r].pc = "trained"
    /\ wrappers' = [wrappers EXCEPT ![r].pc = "reporting",
                                    ![r].log = Append(@, Reports(wrappers[r])[1])]

WrapperReportsCompleted(r) ==
    /\ wrappers[r].pc = "reporting"
    /\ wrappers' = [wrappers EXCEPT ![r].pc = "polling",
                                    ![r].log = Append(@, Reports(wrappers[r])[2])]

process_vars ==
    <<proc_vars, preempt_vars, restore_vars, gathered, run_stop, pc, delivered, response, acks,
      hook_vars, save_vars, stop_requested, write_vars, ckpt_vars, batches_run, exc,
      invalid_hp_at, graceful, trial_closes, ctx_vars>>

harness_vars == <<tool_vars, process_vars>>

SearcherEvent ==
    /\ \E r \in DOMAIN wrappers :
        \/ TrialCreated(r)
        \/ ValidationCompleted(r)
        \/ TrialClosed(r)
        \/ TrialExitedEarly(r)
    /\ UNCHANGED <<wrappers, harness_vars>>

WrapperStep ==
    /\ \E r \in DOMAIN wrappers :
        \/ WrapperStarts(r)
        \/ WrapperNextOp(r)
        \/ WrapperSequenceEnds(r)
        \/ WrapperTrains(r)
        \/ WrapperReportsMetrics(r)
        \/ WrapperReportsCompleted(r)
    /\ UNCHANGED <<search_pc, running_trials, operations, events, harness_vars>>

(* no trial process of the harness is looked at beside the search *)
NoHarness ==
    /\ size = 1
    /\ rank = 0
    /\ caller = "user"
    /\ info = NoInfo
    /\ backend = "none"
    /\ steps_completed = 0
    /\ latest_checkpoint = <<>>
    /\ restarts = 0
    /\ FreshProcess

DsatInit ==
    /\ search_pc = "start"
    /\ running_trials = 0
    /\ operations = <<>>
    /\ events = <<>>
    /\ wrappers = [r \in 1..NumHparams |-> IdleWrapper]
    /\ NoTools
    /\ NoHarness

DsatNext ==
    \/ SearchStarts /\ UNCHANGED <<events, wrappers, harness_vars>>
    \/ SearcherEvent
    \/ WrapperStep

DsatSpec == DsatInit /\ [][DsatNext]_vars

(* events are delivered and the trial processes run as long as they can *)
DsatFairSpec == DsatSpec /\ WF_vars(DsatNext)

(* ---- one wrapper against the operations of any search method ---- *)
AnyValidateAfter ==
    /\ search_pc = "any"
    /\ Len(OpsOf(operations, "Close")) = 0
    /\ Len(OpsOf(operations, "ValidateAfter")) < MaxOps
    /\ \E n \in 1..MaxLength : operations' = Append(operations, ValidateAfter(1, n))
    /\ UNCHANGED <<search_pc, running_trials, events, wrappers, harness_vars>>

AnyClose ==
    /\ search_pc = "any"
    /\ Len(OpsOf(operations, "Close")) = 0
    /\ Len(CallsBy(wrappers[1], "report_completed"))
           = Len(OpsOf(operations, "ValidateAfter"))
    /\ operations' = Append(operations, Close(1))
    /\ UNCHANGED <<search_pc, running_trials, events, wrappers, harness_vars>>

WrapperInit ==
    /\ search_pc = "any"
    /\ running_trials = 0
    /\ operations = <<Create(1)>>
    /\ events = <<>>
    /\ wrappers = [r \in {1} |-> IdleWrapper]
    /\ NoTools
    /\ NoHarness

WrapperNext ==
    \/ AnyValidateAfter
    \/ AnyClose
    \/ WrapperStep

WrapperSpec == WrapperInit /\ [][WrapperNext]_vars

(* ---- the follow-on stages of the model-info profiling trial ---- *)
(* the largest number of ranks of the follow-on task *)
MaxTaskRanks == 4

(* the torch_distributed launcher starts one process per rank, for the first
   follow-on script and, once that has ended on every rank, for the second *)
FollowOnTask(n) ==
    [size |-> n, pcs |-> [r \in 0..(n - 1) |-> "checkpoint_profiling_results"],
     store_path |-> <<>>, checkpoints |-> <<>>, experiments |-> <<>>, raised |-> {}]

is_chief_every_rank(get_rank) == TRUE

(* is_chief = core_context.distributed.get_rank() == 0 *)
is_chief_rank(get_rank) == get_rank = 0

(* checkpoint_profiling_results.main on rank r: the chief copies the profiling
   output into a checkpoint of the trial; the copy may fail *)
CheckpointProfilingResults(r) ==
    /\ followon.pcs[r] = "checkpoint_profiling_results"
    /\ IF is_chief_rank(r)
       THEN \E ok \in BOOLEAN :
            followon' = [followon EXCEPT
                           !.pcs[r] = "launched",
                           !.store_path = Append(@, r),
                           !.checkpoints = IF ok THEN Append(@, r) ELSE @,
                           !.raised = IF ok THEN @ ELSE @ \cup {r}]
       ELSE followon' = [followon EXCEPT !.pcs[r] = "launched"]
    /\ UNCHANGED <<fit, cli, search_vars, process_vars>>

(* run_ds_autotune.main on rank r: the chief reads the profiling results, which may
   fail, and creates the search experiment *)
RunDsAutotune(r) ==
    /\ followon.pcs[r] = "launched"
    /\ \A q \in DOMAIN followon.pcs : followon.pcs[q] # "checkpoint_profiling_results"
    /\ IF is_chief_rank(r)
       THEN \E ok \in BOOLEAN :
            followon' = [followon EXCEPT
                           !.pcs[r] = "done",
                           !.experiments = IF ok THEN Append(@, r) ELSE @,
                           !.raised = IF ok THEN @ ELSE @ \cup {r}]
       ELSE followon' = [followon EXCEPT !.pcs[r] = "done"]
    /\ UNCHANGED <<fit, cli, search_vars, process_vars>>

FollowOnInit ==
    /\ followon \in {FollowOnTask(n) : n \in 1..MaxTaskRanks}
    /\ fit = NoFit
    /\ cli = NoKill
    /\ NoSearch
    /\ NoHarness

FollowOnNext ==
    \E r \in DOMAIN followon.pcs :
        \/ CheckpointProfilingResults(r)
        \/ RunDsAutotune(r)

FollowOnSpec == FollowOnInit /\ [][FollowOnNext]_vars

(* ---- pytorch Trainer.fit ---- *)
(* an optional bool argument: <<>> when it is omitted (None), else <<value>> *)
OptionalBool == {<<>>, <<FALSE>>, <<TRUE>>}

(* Python's `x or default` on an optional bool: x when x is truthy, else default *)
PyOr(x, default) == IF x # <<>> /\ x[1] THEN x[1] ELSE default

(* the fit() calls looked at: the three bool arguments, whether max_length and
   metric_name are given, the mode of the Trainer, and the searcher config's
   smaller_is_better on the cluster; the other arguments are omitted *)
FitCalls ==
    [average_training_metrics : OptionalBool,
     average_aggregated_gradients : OptionalBool,
     smaller_is_better : OptionalBool,
     max_length : BOOLEAN, metric_name : BOOLEAN,
     local_training : BOOLEAN, config_smaller_is_better : BOOLEAN]

(* the assertions of the local-training branch, with checkpoint_policy "best" *)
FitAsserts(c) == c.local_training => (c.metric_name /\ c.max_length)

(* Trainer.fit up to trial_controller.run(): what it sets on the context and passes
   to _PyTorchTrialController *)
Fit ==
    /\ fit.pc = "called"
    /\ LET c == fit.call IN
       fit' = [fit EXCEPT
                 !.pc = IF FitAsserts(c) THEN "running" ELSE "raised",
                 !.context = <<PyOr(c.average_aggregated_gradients, TRUE)>>,
                 !.controller =
                     IF FitAsserts(c)
                     THEN <<[average_training_metrics |->
                                 PyOr(c.average_training_metrics, TRUE),
                             smaller_is_better |->
                                 IF c.local_training
                                 THEN PyOr(c.smaller_is_better, TRUE)
                                 ELSE PyOr(c.smaller_is_better,
                                           c.config_smaller_is_better)]>>
                     ELSE <<>>]
    /\ UNCHANGED <<followon, cli, search_vars, process_vars>>

FitInit ==
    /\ fit \in [pc : {"called"}, call : FitCalls, context : {<<>>}, controller : {<<>>}]
    /\ followon = NoFollowOn
    /\ cli = NoKill
    /\ NoSearch
    /\ NoHarness

FitSpec == FitInit /\ [][Fit]_vars

(* ---- the CLI's kill command ---- *)
(* the largest number of task ids on the command line *)
MaxTasks == 3

(* expand_uuid_prefixes(args): the task ids, distinct, in the order given *)
TaskIdLists ==
    {ids \in UNION {[1..n -> 1..MaxTasks] : n \in 1..MaxTasks} :
        \A a, b \in DOMAIN ids : a # b => ids[a] # ids[b]}

(* task_ids[i + 1:] *)
Ignored(task_ids, i) == SubSeq(task_ids, i + 1, Len(task_ids))

ReraisesAlways(force) == TRUE

(* if not args.force: ... raise e *)
Reraises(force) == ~force

(* one iteration of the for loop: _kill posts the request, which succeeds, fails
   with an APIException, or fails with another exception that no clause catches *)
KillTask ==
    /\ cli.pc = "running"
    /\ cli.i <= Len(cli.task_ids)
    /\ LET task_id == cli.task_ids[cli.i] IN
       \E outcome \in {"ok", "APIException", "Exception"} :
          cli' = [cli EXCEPT
                    !.attempted = Append(@, task_id),
                    !.killed = IF outcome = "ok" THEN Append(@, task_id) ELSE @,
                    !.printed =
                        CASE outcome = "ok" -> Append(@, <<"Killed", task_id>>)
                          [] outcome = "Exception" -> @
                          [] OTHER ->
                               IF Reraises(cli.force)
                               THEN @ \o [k \in 1..(Len(cli.task_ids) - cli.i) |->
                                            <<"Cowardly not killing",
                                              Ignored(cli.task_ids, cli.i)[k]>>]
                               ELSE Append(@, <<"Skipping", task_id>>),
                    !.error =
                        CASE outcome = "ok" -> @
                          [] outcome = "Exception" -> outcome
                          [] OTHER -> IF Reraises(cli.force) THEN outcome ELSE @,
                    !.pc =
                        CASE outcome = "ok" -> @
                          [] outcome = "Exception" -> "raised"
                          [] OTHER -> IF Reraises(cli.force) THEN "raised" ELSE @,
                    !.i = @ + 1]
    /\ UNCHANGED <<followon, fit, search_vars, process_vars>>

(* the for loop is exhausted: kill returns *)
KillReturns ==
    /\ cli.pc = "running"
    /\ cli.i > Len(cli.task_ids)
    /\ cli' = [cli EXCEPT !.pc = "done"]
    /\ UNCHANGED <<followon, fit, search_vars, process_vars>>

KillInit ==
    /\ cli \in [pc : {"running"}, task_ids : TaskIdLists, force : BOOLEAN, i : {1},
                attempted : {<<>>}, killed : {<<>>}, printed : {<<>>},
                error : {"none"}]
    /\ followon = NoFollowOn
    /\ fit = NoFit
    /\ NoSearch
    /\ NoHarness

KillNext ==
    \/ KillTask
    \/ KillReturns

KillSpec == KillInit /\ [][KillNext]_vars


(* ======================= properties ======================= *)
AckedWorkload(i) == delivered[acks[i].idx]

AcksOfKind(k) == {i \in 1..Len(acks) : AckedWorkload(i).kind = k}

IsReporting(k) == pc \in {"reporting", "train_reporting"} /\ wkld.kind = k

(* C1: the response function of every delivered workload is called exactly once, in
   delivery order, and WorkerFinishedGracefully is raised at most once and only
   after all N workloads of the sequence have been acknowledged; nothing is
   acknowledged after it. *)
C1_AcksInOrderThenGraceful ==
    /\ \A i \in 1..Len(acks) : acks[i].idx = i
    /\ Len(acks) <= Len(delivered)
    /\ graceful <= 1
    /\ graceful = 1 => /\ Len(acks) = Len(delivered)
                       /\ pc \in {"raised", "exiting", "done"}

C1_Witness ==
    /\ graceful = 1
    /\ Len(acks) = 3
    /\ {delivered[i].kind : i \in 1..3} =
           {"RUN_STEP", "COMPUTE_VALIDATION_METRICS", "CHECKPOINT_MODEL"}

C2_Step ==
    /\ (pc = "awaiting" /\ pc' # pc) =>
          \/ /\ delivered' = Append(delivered, wkld') /\ acks' = acks
             /\ pc' = (IF wkld'.kind = "RUN_STEP" THEN "training" ELSE "running")
          \/ /\ pc' = "raised" /\ exc' = "WorkerFinishedGracefully"
             /\ graceful' = graceful + 1 /\ delivered' = delivered
    /\ (pc = "running" /\ pc' # pc) =>
          \/ pc' = "reporting" /\ acks' = acks /\ delivered' = delivered
          \/ pc' = "raised" /\ exc' \in {"Error", "AssertionError"}
    /\ (pc = "training" /\ pc' # pc) =>
          \/ pc' = "train_reporting" /\ acks' = acks /\ delivered' = delivered
          \/ pc' = "raised" /\ exc' \in {"Error", "InvalidHP"}
          \/ pc' = "returned"
    /\ (pc \in {"reporting", "train_reporting"} /\ pc' # pc) =>
          /\ pc' = "awaiting"
          /\ Len(acks') = Len(acks) + 1
          /\ acks'[Len(acks')].idx = Len(delivered)
          /\ delivered' = delivered
    /\ pc \in {"raised", "returned", "exiting", "done"} =>
          /\ pc' \in {"raised", "returned", "exiting", "done"}
          /\ delivered' = delivered /\ acks' = acks

(* C2: a workload is pulled only when every workload delivered before it has been
   acknowledged; the loop moves awaiting -> running (or the batches of a RUN_STEP)
   -> reporting -> awaiting; from the top of the loop it is left only into the
   batches of a RUN_STEP or, on exhaustion, for good with the graceful signal; any
   other way out is a raised error, and nothing is pulled after leaving for good. *)
C2_OneWorkloadAtATime ==
    /\ [](pc = "awaiting" => Len(acks) = Len(delivered))
    /\ [](pc \in {"running", "training", "reporting", "train_reporting"}
            => Len(delivered) = Len(acks) + 1)
    /\ [][C2_Step]_vars

C2_Witness == pc = "running" /\ Len(delivered) = 2 /\ Len(acks) = 1

(* C3: every acknowledged RUN_STEP has run exactly its num_batches batches when its
   response function is called: while fewer have run the process is still
   training, and the response is built right after the num_batches-th. *)
C3_RunStepRunsExactlyNumBatches ==
    /\ \A i \in AcksOfKind("RUN_STEP") : acks[i].batches = AckedWorkload(i).num_batches
    /\ pc = "training" => batches_run < wkld.num_batches
    /\ pc = "train_reporting" => batches_run = wkld.num_batches

C3_Witness ==
    \E i \in AcksOfKind("RUN_STEP") :
        acks[i].batches = MaxBatches /\ AckedWorkload(i).num_batches = MaxBatches

(* C4: at the end of a RUN_STEP rank 0 responds with the metrics of exactly this
   step's batches and the trial's stop_requested flag and writes them through the
   metric writer; a rank other than 0 responds {} and never writes training
   metrics. *)
C4_TrainMetricsOnlyOnChief ==
    /\ pc = "train_reporting" =>
          IF rank = 0
          THEN /\ response.kind = "metrics"
               /\ response.metrics = step_metrics
               /\ Len(step_metrics) = wkld.num_batches
               /\ response.stop_requested = stop_requested
               /\ train_writes # <<>>
               /\ train_writes[Len(train_writes)] = steps_completed
          ELSE response.kind = "empty" /\ response.metrics = <<>>
    /\ rank # 0 => train_writes = <<>>
    /\ \A i \in AcksOfKind("RUN_STEP") :
          acks[i].kind = (IF rank = 0 THEN "metrics" ELSE "empty")
    /\ rank = 0 =>
          Len(train_writes) = Cardinality(AcksOfKind("RUN_STEP"))
                              + (IF pc = "train_reporting" THEN 1 ELSE 0)

C4_Witness ==
    /\ rank = 1
    /\ train_writes = <<>>
    /\ \E i \in AcksOfKind("RUN_STEP") : acks[i].kind = "empty"

(* C5: validation metrics are written through the metric writer on rank 0 only, once
   per validation that produced metrics; on every rank the validation workload is
   acknowledged (with its metrics response or an InvalidHP response). *)
C5_ValidationPersistedOnlyOnChief ==
    /\ rank # 0 => val_writes = <<>>
    /\ rank = 0 =>
          Len(val_writes) =
              Cardinality({i \in AcksOfKind("COMPUTE_VALIDATION_METRICS") :
                              acks[i].kind = "metrics"})
              + (IF IsReporting("COMPUTE_VALIDATION_METRICS") /\ response.kind = "metrics"
                 THEN 1 ELSE 0)
    /\ \A i \in AcksOfKind("COMPUTE_VALIDATION_METRICS") :
          acks[i].kind \in {"metrics", "invalid_hp"}

C5_Witness ==
    /\ rank = 1
    /\ val_writes = <<>>
    /\ \E i \in AcksOfKind("COMPUTE_VALIDATION_METRICS") : acks[i].kind = "metrics"


(* C6: a checkpoint id reaches the workload stream from rank 0 only: every uuid
   response answers a CHECKPOINT_MODEL on rank 0 and carries the id store_path
   produced for that workload (uploaded, registered, different from every other
   one); a rank other than 0 answers CHECKPOINT_MODEL with {}; rank 0 answers it with
   the uuid unless the checkpoint body raised InvalidHP. *)
C6_CheckpointIdFromChiefOnly ==
    /\ \A i \in AcksOfKind("CHECKPOINT_MODEL") :
          IF rank = 0
          THEN /\ acks[i].kind \in {"uuid", "invalid_hp"}
               /\ acks[i].kind = "uuid" =>
                     acks[i].uuid \in (uploaded \cap registered)
               /\ acks[i].kind = "invalid_hp" => acks[i].idx \in invalid_hp_at
          ELSE acks[i].kind = "empty" /\ acks[i].uuid = 0
    /\ \A i \in 1..Len(acks) :
          acks[i].kind = "uuid" =>
              /\ rank = 0
              /\ AckedWorkload(i).kind = "CHECKPOINT_MODEL"
              /\ \A j \in 1..Len(acks) :
                    (j # i /\ acks[j].kind = "uuid") => acks[j].uuid # acks[i].uuid
    /\ (IsReporting("CHECKPOINT_MODEL") /\ rank = 0 /\ Len(delivered) \notin invalid_hp_at)
          => response.kind = "uuid" /\ response.uuid = store_entered

C6_Witness ==
    /\ rank = 0
    /\ size = 2
    /\ \E i \in AcksOfKind("CHECKPOINT_MODEL") : acks[i].kind = "uuid" /\ acks[i].uuid = 2

(* C7 as stated: every rank that completes a CHECKPOINT_MODEL has entered store_path
   and uploaded, and only rank 0 has registered. *)
C7_EveryRankUploads ==
    /\ \A i \in AcksOfKind("CHECKPOINT_MODEL") :
          acks[i].kind # "invalid_hp" => (store_entered > 0 /\ uploaded # {})
    /\ registered # {} => rank = 0

(* C7 amended: only rank 0 enters store_path, uploads and registers; a rank other
   than 0 completes its CHECKPOINT_MODEL workloads without ever entering store_path.
   On rank 0 store_path is entered once per CHECKPOINT_MODEL handled, and every
   checkpoint whose body completed is both uploaded and registered. *)
C7_OnlyChiefEntersStorePath ==
    /\ rank # 0 => (store_entered = 0 /\ uploaded = {} /\ registered = {})
    /\ rank = 0 =>
          /\ uploaded = registered
          /\ store_entered >= Cardinality(AcksOfKind("CHECKPOINT_MODEL"))
                              + (IF IsReporting("CHECKPOINT_MODEL") THEN 1 ELSE 0)
          /\ Cardinality(uploaded) =
                 Cardinality({i \in AcksOfKind("CHECKPOINT_MODEL") : acks[i].kind = "uuid"})
                 + (IF IsReporting("CHECKPOINT_MODEL") /\ response.kind = "uuid"
                    THEN 1 ELSE 0)

C7_Witness ==
    /\ rank = 1
    /\ store_entered = 0
    /\ \E i \in AcksOfKind("CHECKPOINT_MODEL") : acks[i].kind = "empty"

InvalidHPAnswered(i) ==
    \/ \E j \in 1..Len(acks) : acks[j].idx = i /\ acks[j].kind = "invalid_hp"
    \/ pc = "reporting" /\ Len(delivered) = i /\ response.kind = "invalid_hp"

(* C8 as stated: an InvalidHP raised during any workload is answered with an InvalidHP
   response to that workload's response function. *)
C8_InvalidHPAlwaysAnswered ==
    \A i \in invalid_hp_at : i >= 1 => InvalidHPAnswered(i)

(* C8 amended: an InvalidHP raised during COMPUTE_VALIDATION_METRICS or
   CHECKPOINT_MODEL is caught in the loop and answered with an InvalidHP response to
   that workload's response function, and an InvalidHP response is sent for no other
   reason; an InvalidHP raised during the batches of a RUN_STEP is not caught by the
   control hook: that workload gets no response, the exception leaves run(), and
   Context.__exit__ reports the early exit and ends the process with code 0. *)
C8_InvalidHPAnsweredOutsideTraining ==
    /\ \A i \in invalid_hp_at : i >= 1 =>
          IF delivered[i].kind \in {"COMPUTE_VALIDATION_METRICS", "CHECKPOINT_MODEL"}
          THEN InvalidHPAnswered(i)
          ELSE /\ delivered[i].kind = "RUN_STEP"
               /\ i = Len(delivered)
               /\ Len(acks) = i - 1
               /\ exc = "InvalidHP"
               /\ pc \in {"raised", "exiting", "done"}
               /\ pc = "done" =>
                     /\ exit_code = 0
                     /\ \E k \in 1..Len(ctx_log) :
                           ctx_log[k] = "report_early_exit(INVALID_HP)"
    /\ \A j \in 1..Len(acks) : acks[j].kind = "invalid_hp" => acks[j].idx \in invalid_hp_at
    /\ (exc = "InvalidHP" /\ Len(delivered) > 0) => wkld.kind = "RUN_STEP"

C8_Witness ==
    /\ pc = "running"
    /\ Len(acks) = 2
    /\ acks[1].kind = "invalid_hp" /\ delivered[1].kind = "COMPUTE_VALIDATION_METRICS"
    /\ acks[2].kind = "invalid_hp" /\ delivered[2].kind = "CHECKPOINT_MODEL"

EarlyExitReports ==
    {k \in 1..Len(ctx_log) : ctx_log[k] = "report_early_exit(INVALID_HP)"}

(* C9: when the with-block is left with InvalidHP, __exit__ reports the early exit
   with reason INVALID_HP exactly once, as the last call before exit(0), and the
   process ends with code 0; no early exit is reported before __exit__ runs. *)
C9_InvalidHPExitsZeroAfterOneReport ==
    /\ (pc = "done" /\ exc = "InvalidHP") =>
          /\ Cardinality(EarlyExitReports) = 1
          /\ Len(ctx_log) >= 2
          /\ ctx_log[Len(ctx_log) - 1] = "report_early_exit(INVALID_HP)"
          /\ ctx_log[Len(ctx_log)] = "exit(0)"
          /\ exit_code = 0
    /\ pc # "done" => (EarlyExitReports = {} /\ exit_code = None)

C9_Witness ==
    /\ pc = "done" /\ exc = "InvalidHP" /\ invalid_hp_at = {0}
    /\ exit_code = 0 /\ Cardinality(EarlyExitReports) = 1

(* C10: the graceful-completion signal never leaves run(): after it the process
   leaves the Context with no exception and ends with code 0 and no early-exit
   report; a training loop that returns without the signal leaves run() with
   AssertionError and a non-zero code; a run that got as far as the control loop
   ends with code 0 and no exception only through the signal. *)
C10_GracefulCompletionIsSuccess ==
    /\ []((graceful = 1 /\ pc \in {"exiting", "done"}) => exc = "none")
    /\ []((graceful = 1 /\ pc = "done") => (exit_code = 0 /\ EarlyExitReports = {}))
    /\ [][pc = "returned" => (pc' = "exiting" /\ exc' = "AssertionError")]_vars
    /\ []((pc = "done" /\ exc = "AssertionError") => exit_code # 0)
    /\ []((pc = "done" /\ exc = "none") => graceful = 1)

C10_Witness ==
    /\ pc = "done" /\ graceful = 1 /\ exit_code = 0 /\ exc = "none"
    /\ Len(acks) = 2

(* C11: a workload of a kind other than RUN_STEP, COMPUTE_VALIDATION_METRICS and
   CHECKPOINT_MODEL makes the control loop raise AssertionError: no InvalidHP (or
   other) response is built for it, its response function is never called, it is
   the last workload pulled, and the error leaves run() and the Context as an
   error (non-zero exit code, no early-exit report). *)
C11_UnknownKindIsFatal ==
    \A i \in 1..Len(delivered) :
        delivered[i].kind \notin {"RUN_STEP", "COMPUTE_VALIDATION_METRICS",
                                  "CHECKPOINT_MODEL"} =>
            /\ i = Len(delivered)
            /\ \A j \in 1..Len(acks) : acks[j].idx # i
            /\ response = EmptyResponse
            /\ i \notin invalid_hp_at
            /\ pc \in {"running", "raised", "exiting", "done"}
            /\ pc # "running" => exc = "AssertionError"
            /\ pc = "done" => (exit_code = 1 /\ EarlyExitReports = {})

C11_Witness ==
    /\ pc = "done"
    /\ Len(delivered) = 3 /\ delivered[3].kind = "UNKNOWN"
    /\ Len(acks) = 2
    /\ exc = "AssertionError"

CallsOf(name) == {k \in 1..Len(ctx_log) : ctx_log[k] = name}

(* C12: however the with-block is left (no exception, an error, InvalidHP), when the
   process has ended __exit__ has called preempt.close() exactly once and
   distributed.close() exactly once, preempt.close() first and both before the
   early-exit report and before exit(0); neither is called before __exit__ runs,
   and no exit code exists before both were called. *)
C12_ExitClosesPreemptThenDistributed ==
    /\ pc = "done" =>
          /\ Cardinality(CallsOf("preempt.close")) = 1
          /\ Cardinality(CallsOf("distributed.close")) = 1
          /\ \A p \in CallsOf("preempt.close"), d \in CallsOf("distributed.close") :
                /\ p < d
                /\ \A k \in CallsOf("report_early_exit(INVALID_HP)") \cup CallsOf("exit(0)") :
                      d < k
    /\ pc # "done" =>
          /\ CallsOf("preempt.close") = {}
          /\ CallsOf("distributed.close") = {}
          /\ exit_code = None

C12_Witness ==
    /\ pc = "done" /\ exc = "InvalidHP"
    /\ Len(delivered) = 2 /\ Len(acks) = 1
    /\ CallsOf("report_early_exit(INVALID_HP)") # {}
    /\ CallsOf("preempt.close") # {}

C12_WitnessError == pc = "done" /\ exc = "Error" /\ CallsOf("distributed.close") # {}

C12_WitnessNormal == pc = "done" /\ exc = "none" /\ CallsOf("distributed.close") # {}

Returned == pc \in {"entered", "exiting"} \/ (pc = "done" /\ core_context # NoContext)

(* C15 as stated: in every environment the Context that core.init() returned has a
   preempt context whose mode is the preempt_mode the caller passed. *)
C15_PreemptModeAsPassed ==
    Returned => core_context.preempt.mode = call.preempt_mode

(* C16: off-cluster (no ClusterInfo) core.init() creates no Session, raises nothing
   and returns a Context whose checkpoint, preempt, train and searcher are the dummy
   implementations, with no tensorboard manager, and whose distributed context is
   the caller's, or the dummy one with rank 0 and size 1 when the caller gave
   none. *)
C16_OffClusterContextIsDummy ==
    info = NoInfo =>
        /\ sessions = 0
        /\ (caller = "user" /\ pc \notin {"main", "init"}) =>
              /\ Returned
              /\ exc # "ValueError"
              /\ core_context.checkpoint = "dummy"
              /\ core_context.preempt.kind = "dummy"
              /\ core_context.train = "dummy"
              /\ core_context.searcher = "dummy"
              /\ ~core_context.tensorboard_manager
              /\ IF call.distributed = NoDistributed
                 THEN /\ core_context.distributed.kind = "dummy"
                      /\ core_context.distributed.rank = 0
                      /\ core_context.distributed.size = 1
                 ELSE core_context.distributed = call.distributed

C16_Witness ==
    /\ info = NoInfo /\ pc = "entered" /\ size = 2
    /\ call.distributed = NoDistributed
    /\ core_context.distributed.rank = 0 /\ core_context.train = "dummy"

(* C17: on the cluster, core.init() without a DistributedContext raises ValueError
   and returns no Context when the task has more than one container address or
   more than one slot id, and returns a Context with the dummy distributed context
   when it has one of each; harness.main, run for a trial with no distributed
   backend active, raises ValueError before core.init() for such a multi-slot task
   and passes distributed=None otherwise. *)
C17_MultiSlotNeedsDistributed ==
    /\ (caller = "user" /\ pc \notin {"main", "init"} /\ info # NoInfo
            /\ call.distributed = NoDistributed) =>
          IF info.container_addrs > 1 \/ info.slot_ids > 1
          THEN /\ core_context = NoContext
               /\ exc = "ValueError"
               /\ pc = "done" /\ exit_code = 1
               /\ ctx_log = <<>>
          ELSE /\ Returned
               /\ core_context.distributed = DummyDistributedContext
    /\ (caller = "harness" /\ pc # "main" /\ info # NoInfo /\ info.task_type = "TRIAL"
            /\ backend = "none") =>
          IF info.container_addrs > 1 \/ info.slot_ids > 1
          THEN /\ core_context = NoContext
               /\ exc = "ValueError"
               /\ pc = "done" /\ exit_code = 1
               /\ sessions = 0
          ELSE /\ call.distributed = NoDistributed
               /\ pc # "init" => core_context.distributed = DummyDistributedContext

C17_Witness ==
    /\ caller = "user" /\ exc = "ValueError" /\ pc = "done"
    /\ info.container_addrs = 1 /\ info.slot_ids = 2
    /\ sessions = 1

C17_WitnessHarness ==
    /\ caller = "harness" /\ exc = "ValueError" /\ info.container_addrs = 2

(* C13: the preemption signal changes nothing but the flag; a RUN_STEP during which
   the flag was set is not cut short: it is still training while batches remain,
   and it leaves training acknowledged with all its num_batches batches run (or
   because the training itself raised or returned); should_preempt() is observed only at
   the top of the loop, with every delivered workload acknowledged, where the
   early exit is reported once and nothing more is pulled. *)
C13_PreemptionIsCooperative ==
    /\ [][preempt_flag' # preempt_flag =>
             UNCHANGED <<pc, delivered, acks, response, batches_run, exc,
                         batches_processed_in_step, num_batches, steps_completed>>]_vars
    /\ [](pc = "training" => batches_run < wkld.num_batches)
    /\ [](\A i \in AcksOfKind("RUN_STEP") :
             acks[i].batches = AckedWorkload(i).num_batches)
    /\ [](mid_step_signal =>
             /\ wkld.kind = "RUN_STEP"
             /\ \/ pc \in {"training", "train_reporting", "returned"}
                \/ /\ Len(acks) = Len(delivered)
                   /\ acks[Len(acks)].batches = wkld.num_batches
                \/ exc \in {"Error", "InvalidHP", "AssertionError"})
    /\ [][preempt_seen' # preempt_seen =>
             /\ pc = "awaiting" /\ Len(acks) = Len(delivered)
             /\ preempt_exits' = preempt_exits + 1
             /\ delivered' = delivered]_vars
    /\ [](preempt_exits <= 1)
    /\ [](preempt_exits = 1 =>
             /\ Len(acks) = Len(delivered)
             /\ pc \in {"raised", "exiting", "done"})

C13_Witness ==
    /\ mid_step_signal
    /\ preempt_exits = 1
    /\ Len(acks) = 1 /\ acks[1].batches = MaxBatches
    /\ delivered[1].num_batches = MaxBatches

(* C14: the preempt context goes Running -> PreemptRequested -> Closed (or straight
   from Running to Closed) and never back; the flag is never cleared, so once a
   should_preempt() call has returned True every later call returns True, also
   after close(), whatever the order of watcher, callers and close(). *)
C14_PreemptionIsIdempotent ==
    /\ [](preempt_seen => should_preempt)
    /\ [][preempt_flag => preempt_flag']_vars
    /\ [][PreemptState' # PreemptState =>
             \/ PreemptState = "Running" /\ PreemptState' \in {"PreemptRequested", "Closed"}
             \/ PreemptState = "PreemptRequested" /\ PreemptState' = "Closed"]_vars

C14_Witness ==
    /\ preempt_seen /\ should_preempt
    /\ PreemptState = "Closed"
    /\ pc = "done"

(* C18: when a validation has produced its response, the metric value in the
   response of rank 0 is, for a numeric metric, the sum of the values gathered from
   all ranks divided by the number of ranks, and, for a non-numeric metric of a
   distributed trial, rank 0's own value, with a warning logged; the response of
   another rank carries no metric value and logs no warning. *)
C18_ValidationMetricsAveragedOnChief ==
    (IsReporting("COMPUTE_VALIDATION_METRICS") /\ response.kind = "metrics") =>
        /\ Len(gathered.values) = size
        /\ IF rank # 0
           THEN response.metrics = <<>> /\ ~gathered.warned
           ELSE /\ Len(response.metrics) = 1
                /\ response.metrics[1].numeric = gathered.numeric
                /\ IF gathered.numeric
                   THEN /\ response.metrics[1].num = SumSeq(gathered.values)
                        /\ response.metrics[1].den = size
                        /\ ~gathered.warned
                   ELSE /\ response.metrics[1].num = gathered.values[1]
                        /\ response.metrics[1].den = 1
                        /\ gathered.warned = (size > 1)

C18_Witness ==
    /\ IsReporting("COMPUTE_VALIDATION_METRICS")
    /\ rank = 0 /\ size = 2
    /\ gathered.numeric /\ gathered.values = <<0, 1>>
    /\ response.metrics = <<Metric(TRUE, 1, 2)>>

C18_WitnessNonNumeric ==
    /\ IsReporting("COMPUTE_VALIDATION_METRICS")
    /\ rank = 0 /\ size = 2
    /\ ~gathered.numeric /\ gathered.values = <<0, 1>> /\ gathered.warned
    /\ response.metrics = <<Metric(FALSE, 0, 1)>>

InLoop ==
    pc \in {"awaiting", "running", "training", "reporting", "train_reporting",
            "raised", "returned"}

(* C19: the workload_sequencer.pkl of every checkpoint answered with a uuid holds the
   sequencer's position at the time of that CHECKPOINT_MODEL workload; a process
   restored from a checkpoint has, once its controller is built, loaded exactly the
   state that checkpoint holds, on every rank, and its sequencer goes on from that
   position; a process that restores nothing starts at position 0. *)
C19_SequencerStateRoundTrip ==
    /\ \A i \in 1..Len(acks) :
          acks[i].kind = "uuid" =>
              stored[acks[i].uuid] = <<Pickle(wlsq_state + acks[i].idx)>>
    /\ (restarts = 1 /\ InLoop) =>
          /\ latest_checkpoint = << <<Pickle(wlsq_state)>> >>
          /\ wlsq_state >= 1
          /\ wlsq_position = wlsq_state + Len(delivered)
          /\ wlsq_position <= MaxWorkloads
    /\ restarts = 0 => (wlsq_state = 0 /\ latest_checkpoint = <<>>)

C19_Witness ==
    /\ restarts = 1 /\ rank = 1
    /\ wlsq_state = 2
    /\ pc = "running" /\ Len(delivered) = 1

(* store_path bodies that raised: InvalidHP during a CHECKPOINT_MODEL, or the error
   that ended the run during one on rank 0 *)
FailedBodies ==
    Cardinality({i \in invalid_hp_at : i >= 1 /\ delivered[i].kind = "CHECKPOINT_MODEL"})
    + (IF rank = 0 /\ exc = "Error" /\ wkld.kind = "CHECKPOINT_MODEL" THEN 1 ELSE 0)

VisibleUuids ==
    {acks[i].uuid : i \in {j \in 1..Len(acks) : acks[j].kind = "uuid"}}
    \cup (IF response.kind = "uuid" THEN {response.uuid} ELSE {})

(* C20: the checkpoints uploaded, registered and held by the storage are exactly
   those whose store_path body completed, and exactly their ids are sent as uuids;
   a CHECKPOINT_MODEL whose body raised InvalidHP is answered with the InvalidHP
   response and no uuid, one whose body raised another error is not answered at
   all, and in both cases its id is neither uploaded nor registered. *)
C20_NoPartialCheckpoint ==
    /\ Cardinality(uploaded) = store_entered - FailedBodies
    /\ registered \subseteq uploaded
    /\ DOMAIN stored = uploaded
    /\ VisibleUuids = uploaded
    /\ \A i \in AcksOfKind("CHECKPOINT_MODEL") :
          acks[i].idx \in invalid_hp_at =>
              acks[i].kind = "invalid_hp" /\ acks[i].uuid = 0
    /\ (wkld.kind = "CHECKPOINT_MODEL" /\ rank = 0
            /\ (Len(delivered) \in invalid_hp_at \/ exc = "Error")) =>
          /\ store_entered \notin (uploaded \cup registered)
          /\ response.kind # "uuid"
          /\ exc = "Error" => \A j \in 1..Len(acks) : acks[j].idx # Len(delivered)

C20_Witness ==
    /\ rank = 0
    /\ Len(acks) = 2
    /\ acks[1].kind = "invalid_hp" /\ delivered[1].kind = "CHECKPOINT_MODEL"
    /\ acks[2].kind = "uuid" /\ acks[2].uuid = 2
    /\ uploaded = {2} /\ registered = {2} /\ store_entered = 2

C20_WitnessError ==
    /\ rank = 0 /\ exc = "Error" /\ wkld.kind = "CHECKPOINT_MODEL"
    /\ store_entered = 1 /\ uploaded = {} /\ pc = "done"

(* ---- the scenario ---- *)
(* nothing has raised in the run so far (the end-of-training exception apart) *)
NothingRaised ==
    /\ invalid_hp_at = {}
    /\ exc \in {"none", "WorkerFinishedGracefully"}
    /\ pc # "returned"

TrainingReports == {i \in AcksOfKind("RUN_STEP") : acks[i].kind = "metrics"}

CheckpointIds == {i \in 1..Len(acks) : acks[i].kind = "uuid"}

(* C21: in the scenario (4 ranks; RUN_STEP(10) three times, CHECKPOINT_MODEL,
   COMPUTE_VALIDATION_METRICS, end of sequence) a process in which nothing raises
   ends with GracefulCompletion exactly once and exit code 0, after answering the
   five workloads in order; rank 0 has sent exactly 3 training metric reports (each
   after 10 batches), exactly 1 checkpoint id and exactly 1 validation report, and
   the other ranks have reported no training metrics, no checkpoint id and
   persisted no validation metrics. GracefulCompletion never comes before the five
   workloads are answered. *)
C21_Scenario ==
    /\ graceful <= 1
    /\ graceful = 1 => Len(delivered) = 5 /\ Len(acks) = 5
    /\ Cardinality(TrainingReports) <= 3
    /\ Cardinality(CheckpointIds) <= 1
    /\ Len(val_writes) <= 1
    /\ ~is_chief =>
          /\ TrainingReports = {}
          /\ CheckpointIds = {}
          /\ train_writes = <<>>
          /\ val_writes = <<>>
    /\ (graceful = 1 /\ NothingRaised) =>
          /\ \A i \in 1..5 : acks[i].idx = i
          /\ \A i \in 1..3 : acks[i].batches = ScenarioBatches
          /\ is_chief =>
                /\ TrainingReports = {1, 2, 3}
                /\ Len(train_writes) = 3
                /\ CheckpointIds = {4}
                /\ acks[5].kind = "metrics"
                /\ Len(val_writes) = 1
          /\ ~is_chief => \A i \in 1..4 : acks[i].kind = "empty"
          /\ steps_completed = 3 * ScenarioBatches
          /\ pc = "done" => exit_code = 0

C21_Witness ==
    /\ rank = 0 /\ size = ScenarioRanks
    /\ pc = "done" /\ graceful = 1 /\ NothingRaised
    /\ Len(acks) = 5 /\ Len(train_writes) = 3
    /\ acks[4].kind = "uuid" /\ Len(val_writes) = 1
    /\ exit_code = 0

C21_WitnessWorker ==
    /\ rank = 3
    /\ pc = "done" /\ graceful = 1 /\ NothingRaised
    /\ Len(acks) = 5 /\ exit_code = 0

(* ---- the DSAT search ---- *)
CreatedIds == {operations[i].request_id : i \in {j \in 1..Len(operations) : operations[j].op = "Create"}}

(* C22 as stated: the search method runs a single trial: its operations are Create,
   ValidateAfter(5) with the same request id, Close once the validation completed,
   Shutdown once the trial is closed, and nothing else. *)
C22_SingleTrialProtocol ==
    /\ Cardinality(CreatedIds) <= 1
    /\ \A r \in CreatedIds :
          /\ SubSeq(operations, 1, 2) = <<Create(r), ValidateAfter(r, 5)>>
          /\ Delivered("validated", r) > 0 => Len(OpsFor(operations, "Close", r)) = 1
          /\ Delivered("closed", r) > 0 =>
                operations = <<Create(r), ValidateAfter(r, 5), Close(r), Shutdown>>

(* C22 amended: for each of its two trials the search method issues Create with a
   fresh request id immediately followed by ValidateAfter(length=5) with the same
   id, and one Close for that id when its validation completes; Shutdown is issued,
   once and last, by the trial-closed event that leaves running_trials (trials
   created minus trials closed) at zero. *)
C22_PerTrialProtocol ==
    /\ search_pc # "start" =>
          /\ Cardinality(CreatedIds) = NumHparams
          /\ Len(OpsOf(operations, "Create")) = NumHparams
          /\ \A i \in 1..NumHparams :
                /\ operations[2 * i - 1].op = "Create"
                /\ operations[2 * i] =
                       ValidateAfter(operations[2 * i - 1].request_id,
                                     MODEL_INFO_MAX_LENGTH)
    /\ \A r \in DOMAIN wrappers :
          /\ Len(OpsFor(operations, "ValidateAfter", r)) <= 1
          /\ Len(OpsFor(operations, "Close", r)) = Delivered("validated", r)
          /\ Delivered("validated", r) <= 1
    /\ running_trials =
          Cardinality({r \in DOMAIN wrappers : Delivered("created", r) > 0})
          - Cardinality({r \in DOMAIN wrappers : Delivered("closed", r) > 0})
    /\ ShutdownIssued <=>
          /\ running_trials = 0
          /\ \E r \in DOMAIN wrappers : Delivered("closed", r) > 0
    /\ ShutdownIssued =>
          /\ Len(OpsOf(operations, "Shutdown")) = 1
          /\ operations[Len(operations)] = Shutdown
          /\ events[Len(events)][1] = "closed"

C22_Witness ==
    /\ ShutdownIssued
    /\ \A r \in 1..NumHparams : Delivered("closed", r) > 0
    /\ Len(operations) = 2 * NumHparams + NumHparams + 1

(* C25: Shutdown is issued only after every trial that initial_operations created
   has been closed. *)
C25_ShutdownAfterAllClosed ==
    ShutdownIssued => \A r \in CreatedIds : Delivered("closed", r) > 0

(* C26: with events delivered and trial processes run as long as they can, the
   search eventually issues Shutdown. *)
C26_EventuallyShutdown == <>ShutdownIssued

(* C23: the wrapper handles the operations of its trial one at a time in the order
   they were issued: for the k-th ValidateAfter it creates (and waits for) an
   experiment whose max_length is that operation's length, reports validation
   metrics, then calls report_completed once with the metric it read; it asks for
   the next operation only after that. *)
C23_WrapperProcessesInOrder ==
    LET w == wrappers[1]
        mine == OpsFor(operations, "ValidateAfter", 1)
        trained == CallsBy(w, "create_experiment")
        completed == CallsBy(w, "report_completed")
        busy == w.pc \in {"training", "trained", "reporting", "raised"}
    IN /\ w.taken <= Len(mine)
       /\ \A k \in 1..Len(w.log) :
             w.log[k][1] = CASE k % 3 = 1 -> "create_experiment"
                             [] k % 3 = 2 -> "report_validation_metrics"
                             [] OTHER -> "report_completed"
       /\ \A k \in 1..Len(trained) : trained[k][2] = mine[k].length
       /\ Len(completed) = w.taken - (IF busy THEN 1 ELSE 0)
       /\ Len(trained) = w.taken - (IF w.pc = "training" THEN 1 ELSE 0)
       /\ w.pc = "raised" => Len(w.log) % 3 = 1
       /\ w.pc \in {"polling", "returned"} => Len(w.log) = 3 * w.taken
       /\ (w.pc = "polling" /\ w.taken > 0) =>
             completed[Len(completed)][2] = w.metric
       /\ w.pc = "returned" => Len(completed) = Len(mine)

C23_Witness ==
    /\ wrappers[1].pc = "returned"
    /\ wrappers[1].taken = 2
    /\ Len(CallsBy(wrappers[1], "report_completed")) = 2
    /\ CallsBy(wrappers[1], "create_experiment")[1][2] = 2
    /\ CallsBy(wrappers[1], "create_experiment")[2][2] = 1

(* the calls Context.__exit__ made in the step *)
ExitCalls == SubSeq(ctx_log', Len(ctx_log) + 1, Len(ctx_log'))

(* C24: when the with-block is left with an exception other than InvalidHP,
   Context.__exit__ closes the preempt and distributed contexts, sends no early-exit
   report, does not call exit(0), and lets the exception propagate: the process
   ends with that exception and a non-zero exit code. *)
C24_FatalErrorsPropagate ==
    [][(pc = "exiting" /\ exc \notin {"none", "InvalidHP"}) =>
          /\ pc' = "done"
          /\ exc' = exc
          /\ exit_code' # 0
          /\ SubSeq(ExitCalls, 1, 2) = <<"preempt.close", "distributed.close">>
          /\ \A i \in 1..Len(ExitCalls) :
                ExitCalls[i] \notin {"report_early_exit(INVALID_HP)", "exit(0)"}]_vars

C24_Witness ==
    /\ pc = "done"
    /\ exc = "Error"
    /\ Len(delivered) > 0
    /\ exit_code = 1
    /\ Cardinality(CallsOf("preempt.close")) = 1
    /\ CallsOf("report_early_exit(INVALID_HP)") = {}

C24_WitnessUnknownKind ==
    /\ pc = "done"
    /\ exc = "AssertionError"
    /\ exit_code = 1
    /\ Cardinality(CallsOf("distributed.close")) = 1

(* C27: once Context.__enter__ has called preempt.start(), the process does not end
   without preempt.close() having been called. *)
C27_StartedPreemptIsClosed ==
    (pc = "done" /\ CallsOf("preempt.start") # {}) => CallsOf("preempt.close") # {}

(* a training batch has just run in which the framework raised a stop request *)
StopRaisedInBatch == batches_run' = batches_run + 1 /\ run_stop'

(* C28, as stated: once the trial context holds stop_requested, every training or
   validation response about to be handed over carries it, whatever the rank *)
C28_StopInEveryResponse ==
    (/\ stop_requested
     /\ \/ pc = "train_reporting"
        \/ pc = "reporting" /\ wkld.kind = "COMPUTE_VALIDATION_METRICS")
        => response.stop_requested

(* C28: a stop request raised during a training batch does not end the training
   loop; the trial context holds stop_requested from that batch on, the chief's
   response of the RUN_STEP that contains the batch already reports it, and so does
   every later training response of the chief and every later validation response
   that carries metrics (a worker's training response is {} and a validation that
   raised InvalidHP answers workload.InvalidHP()) *)
C28_StopRequestReported ==
    /\ [][StopRaisedInBatch =>
              /\ pc' # "returned"
              /\ stop_requested'
              /\ (pc' = "train_reporting" /\ is_chief => response'.stop_requested)]_vars
    /\ [][stop_requested => stop_requested']_vars
    /\ [](stop_requested /\ pc = "train_reporting" /\ is_chief
              => response.stop_requested)
    /\ [](stop_requested /\ pc = "reporting" /\ response.kind = "metrics"
              => response.stop_requested)

C28_Witness ==
    /\ is_chief
    /\ pc = "train_reporting"
    /\ run_stop
    /\ num_batches > 1
    /\ response.stop_requested

C28_WitnessLater ==
    /\ pc = "reporting"
    /\ response.kind = "metrics"
    /\ response.stop_requested
    /\ run_stop
    /\ Len(acks) > 0

(* the batches of the RUN_STEPs answered so far *)
RECURSIVE AckedBatches(_)
AckedBatches(called) ==
    IF called = <<>> THEN 0 ELSE Head(called).batches + AckedBatches(Tail(called))

(* the batches of the workload in progress, 0 once it is answered *)
PendingBatches ==
    IF acks # <<>> /\ acks[Len(acks)].idx = Len(delivered) THEN 0 ELSE batches_run

(* the training batches run since the process started *)
TotalBatches == AckedBatches(acks) + PendingBatches

(* env.steps_completed plus the batches run since *)
StepsTrained == info.steps_completed + TotalBatches

(* C29: the hook's steps_completed is always the steps_completed the environment
   supplied at start plus the number of training batches run since, and that value
   is what a training-metrics write, a validation-metrics write and the metadata of
   a checkpoint record *)
C29_StepsCompletedCountsBatches ==
    /\ [](steps_completed = StepsTrained)
    /\ [][train_writes' # train_writes =>
              train_writes' = Append(train_writes, StepsTrained')]_vars
    /\ [][val_writes' # val_writes =>
              val_writes' = Append(val_writes, StepsTrained')]_vars
    /\ [][metadata' # metadata =>
              /\ Len(metadata') = Len(metadata) + 1
              /\ metadata'[Len(metadata')].steps_completed = StepsTrained']_vars

C29_Witness ==
    /\ info.steps_completed = 1
    /\ train_writes # <<>>
    /\ metadata # <<>>
    /\ metadata[Len(metadata)].steps_completed > 1
    /\ val_writes # <<>>
    /\ val_writes[Len(val_writes)] > 1

(* the workload pulled last is a RUN_STEP whose response function has not been called *)
RunStepInProgress ==
    /\ wkld.kind = "RUN_STEP"
    /\ \A i \in DOMAIN acks : acks[i].idx # Len(delivered)

(* the calls made so far of the response function of the i-th workload *)
CallsOfResponseFunc(i) == {k \in DOMAIN acks : acks[k].idx = i}

(* C30: train_response_func is set exactly while a RUN_STEP is pulled and not yet
   answered, and it is then the response function of that workload; the response
   function of a RUN_STEP is called at most once, exactly once before the next
   workload is pulled, and only after the workload's last batch; whenever the
   control loop waits for a workload the hook holds no response function, no
   processed batch and no batch metrics, so during a RUN_STEP the collected
   metrics are those of this step's batches only *)
C30_TrainResponseFuncOnlyDuringRunStep ==
    /\ (train_response_func # None) <=> RunStepInProgress
    /\ RunStepInProgress => train_response_func = Len(delivered)
    /\ \A i \in DOMAIN delivered :
          delivered[i].kind = "RUN_STEP" =>
              /\ Cardinality(CallsOfResponseFunc(i)) <= 1
              /\ i < Len(delivered) => Cardinality(CallsOfResponseFunc(i)) = 1
              /\ \A k \in CallsOfResponseFunc(i) :
                    acks[k].batches = delivered[i].num_batches
    /\ pc = "awaiting" =>
          /\ train_response_func = None
          /\ batches_processed_in_step = 0
          /\ step_metrics = <<>>
    /\ pc \in {"training", "train_reporting"} =>
          /\ RunStepInProgress
          /\ batches_processed_in_step = batches_run
          /\ Len(step_metrics) = batches_run
          /\ \A k \in DOMAIN step_metrics :
                step_metrics[k] = BatchMetrics(global_step - batches_run + k)

C30_Witness ==
    /\ pc = "training"
    /\ Len(delivered) = 2
    /\ delivered[1].kind = "RUN_STEP"
    /\ delivered[1].num_batches = MaxBatches
    /\ Cardinality(CallsOfResponseFunc(1)) = 1
    /\ train_response_func = 2
    /\ step_metrics # <<>>

C30_WitnessReentered ==
    /\ pc = "awaiting"
    /\ Len(acks) = 2
    /\ acks[1].batches > 0
    /\ acks[2].batches > 0

(* the workloads whose handling has called _save_model *)
SaveModelCallers ==
    {i \in DOMAIN delivered :
        /\ delivered[i].kind \in {"COMPUTE_VALIDATION_METRICS", "CHECKPOINT_MODEL"}
        /\ i = Len(delivered) => pc # "running"}

(* the callers of _save_model that come right after a RUN_STEP *)
SavesAfterTraining ==
    {i \in SaveModelCallers : i > 1 /\ delivered[i - 1].kind = "RUN_STEP"}

(* C31: _save_model saves exactly when training has been performed since the last
   save: never before the first training batch of the process, once for a
   validation or checkpoint workload that follows a RUN_STEP, and not again for a
   validation or checkpoint workload that follows another one; the step of the
   last save is then the current global step *)
C31_SaveOnlyAfterTraining ==
    /\ model_saves = Cardinality(SavesAfterTraining)
    /\ current_global_step = None => model_saves = 0
    /\ (model_saves = 0) <=> (global_step_of_last_checkpoint = None)
    /\ (Len(delivered) \in SaveModelCallers /\ current_global_step # None)
          => (global_step_of_last_checkpoint = current_global_step)

C31_Witness ==
    /\ Len(delivered) = 3
    /\ delivered[1].kind = "RUN_STEP"
    /\ delivered[2].kind = "CHECKPOINT_MODEL"
    /\ delivered[3].kind = "COMPUTE_VALIDATION_METRICS"
    /\ pc = "reporting"
    /\ model_saves = 1

C31_WitnessBeforeTraining ==
    /\ Len(delivered) = 2
    /\ delivered[1].kind = "COMPUTE_VALIDATION_METRICS"
    /\ delivered[2].kind = "RUN_STEP"
    /\ model_saves = 0
    /\ current_global_step # None

(* the on_trial_close calls made so far on the train hook at position i *)
ClosesOf(i) == {k \in DOMAIN trial_closes : trial_closes[k] = train_hooks[i]}

(* every RunHook among the train hooks has been closed exactly once, no other hook *)
ClosedExactlyOnce ==
    \A i \in DOMAIN train_hooks :
        Cardinality(ClosesOf(i)) = (IF IsRunHook(train_hooks[i]) THEN 1 ELSE 0)

(* C32: when run() is left, whether the workload stream ended gracefully, the
   training loop returned by itself (AssertionError) or the training loop raised,
   on_trial_close has been called exactly once on every RunHook among the train
   hooks and on no other hook; no on_trial_close call is made while the training
   loop runs or after run() is left *)
C32_TrialCloseOnEveryExitPath ==
    /\ [](trial_closes = <<>> \/ ClosedExactlyOnce)
    /\ [](pc \in {"awaiting", "running", "training", "reporting", "train_reporting",
                  "raised", "returned"} => trial_closes = <<>>)
    /\ [][(pc \in {"raised", "returned"}) => ClosedExactlyOnce']_vars
    /\ [][(pc \notin {"raised", "returned"}) => trial_closes' = trial_closes]_vars

C32_Witness ==
    /\ pc = "exiting"
    /\ size > 1
    /\ exc = "Error"
    /\ delivered # <<>>
    /\ ClosedExactlyOnce

C32_WitnessGraceful == pc = "exiting" /\ graceful = 1 /\ exc = "none" /\ ClosedExactlyOnce

C32_WitnessReturned ==
    /\ pc = "exiting"
    /\ exc = "AssertionError"
    /\ graceful = 0
    /\ ClosedExactlyOnce

(* every rank of the follow-on task has run both scripts and none has raised *)
FollowOnCompleted ==
    /\ followon.raised = {}
    /\ \A r \in DOMAIN followon.pcs : followon.pcs[r] = "done"

(* C33: in the follow-on task only rank 0 stores the profiling-results checkpoint
   and only rank 0 creates the search experiment: whatever the number of ranks,
   each side effect happens at most once, on rank 0, and exactly once when every
   rank has run both scripts without an error *)
C33_OnlyChiefHasSideEffects ==
    /\ \A k \in DOMAIN followon.store_path : followon.store_path[k] = 0
    /\ \A k \in DOMAIN followon.experiments : followon.experiments[k] = 0
    /\ Len(followon.store_path) <= 1
    /\ Len(followon.checkpoints) <= Len(followon.store_path)
    /\ Len(followon.experiments) <= 1
    /\ FollowOnCompleted =>
          /\ Len(followon.checkpoints) = 1
          /\ Len(followon.experiments) = 1

C33_Witness ==
    /\ followon.size = MaxTaskRanks
    /\ FollowOnCompleted
    /\ followon.checkpoints = <<0>>
    /\ followon.experiments = <<0>>

(* C34: the k-th experiment config the wrapper submits is the trial's original
   config with one name suffix, one appended entrypoint stage, a single-searcher
   block whose max_length is the k-th operation's length and the flops-profiler
   config, however many operations were handled before *)
C34_SubmittedConfigIsOriginalPlusEdits ==
    LET w == wrappers[1]
        mine == OpsFor(operations, "ValidateAfter", 1)
    IN \A k \in DOMAIN w.submitted :
           w.submitted[k] = ProfilingConfig(original_config_dict, mine[k].length)

(* the value an optional bool argument asks for: its own when given, else the default *)
Requested(x, default) == IF x = <<>> THEN default ELSE x[1]

(* C35: once fit() has built the controller, the context's
   average_aggregated_gradients, the controller's average_training_metrics and, in
   local training mode, the controller's smaller_is_better are the caller's values
   when the caller gave them, False included, and True when they were omitted *)
C35_FitForwardsSuppliedValues ==
    fit.pc = "running" =>
        LET c == fit.call IN
        /\ fit.context[1] = Requested(c.average_aggregated_gradients, TRUE)
        /\ fit.controller[1].average_training_metrics
              = Requested(c.average_training_metrics, TRUE)
        /\ c.local_training =>
              fit.controller[1].smaller_is_better = Requested(c.smaller_is_better, TRUE)

(* the "Cowardly not killing" lines printed, by task id and in order *)
CowardlyPrinted ==
    LET lines == SelectSeq(cli.printed, LAMBDA l : l[1] = "Cowardly not killing")
    IN [k \in DOMAIN lines |-> lines[k][2]]

(* C36: kill attempts the task ids in the order given. Without --force the first
   APIException ends the command with that error, no later task id is attempted
   and each of them is reported as not killed; with --force an APIException is
   never raised, and when no other kind of exception occurs every task id has been
   attempted by the time the command returns *)
C36_KillStopsUnlessForced ==
    /\ cli.attempted = SubSeq(cli.task_ids, 1, Len(cli.attempted))
    /\ cli.pc = "running" => Len(cli.attempted) = cli.i - 1
    /\ cli.error = "APIException" =>
          /\ ~cli.force
          /\ cli.pc = "raised"
          /\ cli.killed = SubSeq(cli.task_ids, 1, Len(cli.attempted) - 1)
          /\ CowardlyPrinted = Ignored(cli.task_ids, Len(cli.attempted))
    /\ ~cli.force /\ cli.error = "none" => cli.killed = cli.attempted
    /\ cli.force => CowardlyPrinted = <<>>
    /\ cli.pc = "done" => cli.attempted = cli.task_ids /\ cli.error = "none"
    /\ cli.force /\ cli.error = "none" /\ Len(cli.attempted) < Len(cli.task_ids)
          => cli.pc = "running"

C36_Witness ==
    /\ cli.force
    /\ cli.pc = "done"
    /\ cli.task_ids = <<2, 1, 3>>
    /\ cli.killed = <<3>>

C36_WitnessStopped ==
    /\ ~cli.force
    /\ cli.pc = "raised"
    /\ cli.error = "APIException"
    /\ cli.task_ids = <<3, 1, 2>>
    /\ cli.killed = <<3>>
    /\ CowardlyPrinted = <<2>>

====
